---- MODULE Spec2Model ----
(***************************************************************************)
(* R.E.-Image2Vidz: the video search mediator (searchPropertyVideos in     *)
(* services/geminiService.ts) and the search form of App.tsx.              *)
(*                                                                         *)
(* Strings are TLA+ strings; the JavaScript string methods the code uses   *)
(* (trim, replace, startsWith, includes, toLowerCase, match, new URL) are  *)
(* operators over their characters.                                        *)
(***************************************************************************)
EXTENDS Integers, Sequences, FiniteSets, TLC

(***************************************************************************)
(* Bounds of the model.                                                    *)
(***************************************************************************)
\* grounding chunks in one response of the external search
MaxChunks == 2
\* sentences in the free-text summary of one response
MaxSentences == 1
\* the count of polls of the video operation saturates at this value
MaxPolls == 2

(***************************************************************************)
(* JavaScript values and string methods.                                   *)
(***************************************************************************)
\* An optional value: None is undefined / null, Some(v) is the value v
None == [some |-> FALSE]
Some(v) == [some |-> TRUE, val |-> v]

\* !!o for an optional string: undefined, null and "" are falsy
Truthy(o) == o.some /\ o.val # ""

Char(s, i) == SubSeq(s, i, i)

\* s.startsWith(p)
StartsWith(s, p) == Len(s) >= Len(p) /\ SubSeq(s, 1, Len(p)) = p

\* p occurs in s at index from
StartsWithAt(s, from, p) ==
    from + Len(p) - 1 <= Len(s) /\ SubSeq(s, from, from + Len(p) - 1) = p

\* s.includes(p)
Includes(s, p) ==
    \E i \in 1..(Len(s) - Len(p) + 1) : SubSeq(s, i, i + Len(p) - 1) = p

\* white space and line terminators, as String.prototype.trim and \s see them
WhiteSpace == {" ", "\t", "\n", "\r", "\f"}

RECURSIVE TrimStart(_)
TrimStart(s) ==
    IF s # "" /\ Char(s, 1) \in WhiteSpace THEN TrimStart(SubSeq(s, 2, Len(s))) ELSE s

RECURSIVE TrimEnd(_)
TrimEnd(s) ==
    IF s # "" /\ Char(s, Len(s)) \in WhiteSpace
    THEN TrimEnd(SubSeq(s, 1, Len(s) - 1)) ELSE s

\* s.trim()
Trim(s) == TrimEnd(TrimStart(s))

UpperAlpha == "ABCDEFGHIJKLMNOPQRSTUVWXYZ"
LowerAlpha == "abcdefghijklmnopqrstuvwxyz"
Digits == "0123456789"

IsIn(c, alphabet) == \E i \in 1..Len(alphabet) : Char(alphabet, i) = c

LowerChar(c) ==
    IF IsIn(c, UpperAlpha)
    THEN Char(LowerAlpha, CHOOSE i \in 1..Len(UpperAlpha) : Char(UpperAlpha, i) = c)
    ELSE c

RECURSIVE toLowerCase(_)
\* s.toLowerCase()
toLowerCase(s) ==
    IF s = "" THEN "" ELSE LowerChar(Char(s, 1)) \o toLowerCase(SubSeq(s, 2, Len(s)))

Min(S) == CHOOSE i \in S : \A j \in S : i <= j
Max(S) == CHOOSE i \in S : \A j \in S : i >= j

\* the least index >= from of a character of s that is in chars; Len(s)+1 if none
FirstOf(s, chars, from) ==
    Min({i \in from..Len(s) : Char(s, i) \in chars} \cup {Len(s) + 1})

\* the greatest index of a character of s that is in chars; 0 if none
LastOf(s, chars) ==
    Max({i \in 1..Len(s) : Char(s, i) \in chars} \cup {0})

\* the least index >= from of a character of s that is NOT in chars; Len(s)+1 if none
FirstNotOf(s, chars, from) ==
    Min({i \in from..Len(s) : Char(s, i) \notin chars} \cup {Len(s) + 1})

(***************************************************************************)
(* new URL(s): the WHATWG parser for absolute URLs with a scheme, an       *)
(* optional authority (host, optional port), a path, a query and a         *)
(* fragment. It throws (ok = FALSE) when there is no scheme, when a        *)
(* special scheme has no host, or when the host or the port is invalid.    *)
(* Each step hands what it has parsed to the next one.                      *)
(***************************************************************************)
SpecialSchemes == {"http", "https", "ftp", "ws", "wss", "file"}

SchemeChars == {Char(LowerAlpha, i) : i \in 1..Len(LowerAlpha)}
                 \cup {Char(UpperAlpha, i) : i \in 1..Len(UpperAlpha)}
                 \cup {Char(Digits, i) : i \in 1..Len(Digits)}
                 \cup {"+", "-", "."}

ForbiddenHostChars ==
    {" ", "\t", "\n", "\r", "#", "/", ":", "<", ">", "?", "@", "[", "\\", "]", "^", "|", "%"}

InvalidURL == [ok |-> FALSE, hostname |-> "", pathname |-> ""]

\* the characters that separate path segments: a special scheme takes \ for /
Slashes(special) == IF special THEN {"/", "\\"} ELSE {"/"}

\* the host is valid and the port is a number
CheckHost(host, port, special) ==
    [ok |-> /\ \A i \in 1..Len(port) : IsIn(Char(port, i), Digits)
            /\ special => host # ""
            /\ \A i \in 1..Len(host) : Char(host, i) \notin ForbiddenHostChars,
     hostname |-> IF special THEN toLowerCase(host) ELSE host]

\* host and port, split at the last colon (at index colon, 0 if none)
SplitPort(hostport, colon, special) ==
    IF colon = 0 THEN CheckHost(hostport, "", special)
    ELSE CheckHost(SubSeq(hostport, 1, colon - 1),
                   SubSeq(hostport, colon + 1, Len(hostport)), special)

HostPort(hostport, special) == SplitPort(hostport, LastOf(hostport, {":"}), special)

\* the authority: userinfo@ is skipped
ParseAuthority(auth, special) ==
    HostPort(SubSeq(auth, LastOf(auth, {"@"}) + 1, Len(auth)), special)

\* the path runs to the query or the fragment; a special scheme's empty path is /
PathName(path, special) == IF special /\ path = "" THEN "/" ELSE path

ParsePath(rest, pathStart, special) ==
    PathName(SubSeq(rest, pathStart, FirstOf(rest, {"?", "#"}, pathStart) - 1), special)

WithHost(auth, pathname) ==
    IF ~auth.ok THEN InvalidURL
    ELSE [ok |-> TRUE, hostname |-> auth.hostname, pathname |-> pathname]

\* the authority is rest[authStart .. authStop-1], the path starts at authStop
AuthorityAndPath(rest, authStart, authStop, special) ==
    WithHost(ParseAuthority(SubSeq(rest, authStart, authStop - 1), special),
             ParsePath(rest, authStop, special))

FromAuthority(rest, authStart, special) ==
    AuthorityAndPath(rest, authStart,
                     FirstOf(rest, Slashes(special) \cup {"?", "#"}, authStart), special)

\* what follows "scheme:": a special scheme ignores every slash before the
\* authority; another scheme has an authority only after "//"
AfterScheme(rest, special) ==
    IF special THEN FromAuthority(rest, FirstNotOf(rest, Slashes(special), 1), special)
    ELSE IF StartsWith(rest, "//") THEN FromAuthority(rest, 3, special)
    ELSE [ok |-> TRUE, hostname |-> "", pathname |-> ParsePath(rest, 1, special)]

\* colon is the index of the first ":" of s (Len(s)+1 if none)
SchemeAndRest(s, colon) ==
    IF \/ colon = 1
       \/ colon > Len(s)
       \/ ~IsIn(Char(s, 1), LowerAlpha \o UpperAlpha)
       \/ \E i \in 1..(colon - 1) : Char(s, i) \notin SchemeChars
    THEN InvalidURL
    ELSE AfterScheme(SubSeq(s, colon + 1, Len(s)),
                     toLowerCase(SubSeq(s, 1, colon - 1)) \in SpecialSchemes)

ParseURL(s) == SchemeAndRest(s, FirstOf(s, {":"}, 1))

(***************************************************************************)
(* Link extraction of searchPropertyVideos.                                *)
(***************************************************************************)
TrailingPunctuation == {".", ",", ";", ":", ")"}

RECURSIVE StripTrailing(_)
\* s.replace(/[.,;:)]+$/, "")
StripTrailing(s) ==
    IF s # "" /\ Char(s, Len(s)) \in TrailingPunctuation
    THEN StripTrailing(SubSeq(s, 1, Len(s) - 1)) ELSE s

\* uri.trim().replace(/[.,;:)]+$/, "")
CleanUri(uri) == StripTrailing(Trim(uri))

\* uniqueLinks is a Map keyed by URI: the sequence of its values in insertion order
MapHas(uniqueLinks, key) == \E i \in 1..Len(uniqueLinks) : uniqueLinks[i].uri = key

\* Variant of IsChannelPage that compares the host name for equality
IsChannelPage_ExactHost(hostname, cleanUri) ==
    /\ hostname = "www.youtube.com" \/ hostname = "www.youtu.be"
    /\ \/ Includes(cleanUri, "/channel/")
       \/ Includes(cleanUri, "/user/")
       \/ Includes(cleanUri, "/c/")

\* 1. YouTube channels and users
IsChannelPage(hostname, cleanUri) ==
    /\ Includes(hostname, "youtube.com") \/ Includes(hostname, "youtu.be")
    /\ \/ Includes(cleanUri, "/channel/")
       \/ Includes(cleanUri, "/user/")
       \/ Includes(cleanUri, "/c/")

\* 2. generic search and map pages
IsSearchOrMap(cleanUri) ==
    Includes(cleanUri, "google.com/maps") \/ Includes(cleanUri, "google.com/search")

\* 3. root domains and short paths
IsRootPath(pathname) == pathname = "/" \/ Len(pathname) < 2

\* 4. the search-result pages of the real-estate portals
IsPortalSearch(hostname, cleanUri) ==
    \/ /\ Includes(hostname, "zillow.com")
       /\ Includes(cleanUri, "/homes/") \/ Includes(cleanUri, "_rb")
       /\ ~Includes(cleanUri, "/homedetails/")
    \/ Includes(hostname, "realtor.com") /\ Includes(cleanUri, "-search")
    \/ /\ Includes(hostname, "redfin.com")
       /\ Includes(cleanUri, "/city/") \/ Includes(cleanUri, "/zipcode/")
    \/ /\ Includes(hostname, "trulia.com")
       /\ Includes(cleanUri, "/for_sale/") \/ Includes(cleanUri, "/sold/")
       /\ ~Includes(cleanUri, "/p/")

\* 5. "how to" videos
IsHowTo(lowerTitle) ==
    Includes(lowerTitle, "how to verify") \/ Includes(lowerTitle, "verify youtube channel")

\* the filters of processLink once the URL is parsed: TRUE when the link is dropped
Filtered(cleanUri, hostname, pathname, lowerTitle) ==
    \/ IsChannelPage(hostname, cleanUri)
    \/ IsSearchOrMap(cleanUri)
    \/ IsRootPath(pathname)
    \/ IsPortalSearch(hostname, cleanUri)
    \/ IsHowTo(lowerTitle)

\* the check of the prefix: TRUE when the link goes on to new URL
HasHttpPrefix(cleanUri) == StartsWith(cleanUri, "http")

\* Variant of StoreParsed without the has() test: set() replaces the stored value
StoreParsed_Overwrite(uniqueLinks, cleanUri, title, urlObj) ==
    IF ~urlObj.ok THEN uniqueLinks
    ELSE IF Filtered(cleanUri, toLowerCase(urlObj.hostname), urlObj.pathname,
                     toLowerCase(title))
    THEN uniqueLinks
    ELSE IF MapHas(uniqueLinks, cleanUri)
    THEN [k \in 1..Len(uniqueLinks) |->
            IF uniqueLinks[k].uri = cleanUri
            THEN [title |-> title, uri |-> cleanUri, source |-> toLowerCase(urlObj.hostname)]
            ELSE uniqueLinks[k]]
    ELSE Append(uniqueLinks,
                [title |-> title, uri |-> cleanUri,
                 source |-> toLowerCase(urlObj.hostname)])

\* Variant of StoreParsed in which a URL that does not parse discards the Map
StoreParsed_Discard(uniqueLinks, cleanUri, title, urlObj) ==
    IF ~urlObj.ok THEN <<>>
    ELSE IF Filtered(cleanUri, toLowerCase(urlObj.hostname), urlObj.pathname,
                     toLowerCase(title))
    THEN uniqueLinks
    ELSE IF MapHas(uniqueLinks, cleanUri) THEN uniqueLinks
    ELSE Append(uniqueLinks,
                [title |-> title, uri |-> cleanUri,
                 source |-> toLowerCase(urlObj.hostname)])

\* the body of processLink from new URL on; urlObj is new URL(cleanUri)
StoreParsed(uniqueLinks, cleanUri, title, urlObj) ==
    IF ~urlObj.ok THEN uniqueLinks
    ELSE IF Filtered(cleanUri, toLowerCase(urlObj.hostname), urlObj.pathname,
                     toLowerCase(title))
    THEN uniqueLinks
    ELSE IF MapHas(uniqueLinks, cleanUri) THEN uniqueLinks
    ELSE Append(uniqueLinks,
                [title |-> title, uri |-> cleanUri,
                 source |-> toLowerCase(urlObj.hostname)])

StoreClean(uniqueLinks, cleanUri, title) ==
    IF ~HasHttpPrefix(cleanUri) THEN uniqueLinks
    ELSE StoreParsed(uniqueLinks, cleanUri, title, ParseURL(cleanUri))

\* processLink(uri, title): uniqueLinks after the call
processLink(uniqueLinks, uri, title) == StoreClean(uniqueLinks, CleanUri(uri), title)

\* whether processLink(uri, title) passes every check before the Map lookup
Accepted(cleanUri, title) ==
    Len(StoreClean(<<>>, cleanUri, title)) = 1

\* chunk.web.title || "Source Link"
ChunkTitle(chunk) == IF Truthy(chunk.title) THEN chunk.title.val ELSE "Source Link"

RECURSIVE ProcessChunks(_, _)
\* chunks.forEach(chunk => { if (chunk.web?.uri) processLink(uri, title || "Source Link") })
ProcessChunks(uniqueLinks, chunks) ==
    IF chunks = <<>> THEN uniqueLinks
    ELSE ProcessChunks(IF Truthy(Head(chunks).uri)
                       THEN processLink(uniqueLinks, Head(chunks).uri.val,
                                        ChunkTitle(Head(chunks)))
                       ELSE uniqueLinks,
                       Tail(chunks))

\* the characters that end a match of [^\s<>"']+
UrlStop == WhiteSpace \cup {"<", ">", "\"", "'"}

\* the length of the match of https?:\/\/ at index from of text; 0 if none
SchemeMatch(text, from) ==
    IF StartsWithAt(text, from, "https://") THEN 8
    ELSE IF StartsWithAt(text, from, "http://") THEN 7
    ELSE 0

RECURSIVE MatchFrom(_, _)
RECURSIVE MatchAt(_, _, _, _)
\* prefix is the length of the scheme matched at from; the match runs to stop
MatchAt(text, from, prefix, stop) ==
    IF prefix > 0 /\ stop > from + prefix
    THEN <<SubSeq(text, from, stop - 1)>> \o MatchFrom(text, stop)
    ELSE MatchFrom(text, from + 1)

MatchStop(text, from, prefix) ==
    MatchAt(text, from, prefix, FirstOf(text, UrlStop, from + prefix))

\* summary.match(/(https?:\/\/[^\s<>"']+)/g) || [], scanning from index from
MatchFrom(text, from) ==
    IF from > Len(text) THEN <<>>
    ELSE MatchStop(text, from, SchemeMatch(text, from))

MatchUrls(text) == MatchFrom(text, 1)

RECURSIVE ProcessMatches(_, _)
\* textMatches.forEach(match => processLink(match, "Mentioned Link"))
ProcessMatches(uniqueLinks, matches) ==
    IF matches = <<>> THEN uniqueLinks
    ELSE ProcessMatches(processLink(uniqueLinks, Head(matches), "Mentioned Link"),
                        Tail(matches))

\* response.text || "No summary provided."
Summary(response) ==
    IF Truthy(response.text) THEN response.text.val ELSE "No summary provided."

\* Array.from(uniqueLinks.values()) after both extraction passes
AllLinks(response) ==
    ProcessMatches(ProcessChunks(<<>>, response.chunks), MatchUrls(Summary(response)))

\* the host name processLink derives for a cleaned URI ("" when it derives none)
CallSource(cleanUri) ==
    IF HasHttpPrefix(cleanUri) THEN toLowerCase(ParseURL(cleanUri).hostname) ELSE ""

\* the call processLink(uri, title) as the model records it: the cleaned URI,
\* the title, where the link came from, its host name, and whether it passed
\* every filter
CallRecord(cleanUri, title, from) ==
    [uri |-> cleanUri, title |-> title, from |-> from, source |-> CallSource(cleanUri),
     passed |-> Accepted(cleanUri, title)]

RECURSIVE ChunkCalls(_)
ChunkCalls(chunks) ==
    IF chunks = <<>> THEN <<>>
    ELSE (IF Truthy(Head(chunks).uri)
          THEN <<CallRecord(CleanUri(Head(chunks).uri.val), ChunkTitle(Head(chunks)),
                            "citation")>>
          ELSE <<>>) \o ChunkCalls(Tail(chunks))

RECURSIVE TextCalls(_)
TextCalls(matches) ==
    IF matches = <<>> THEN <<>>
    ELSE <<CallRecord(CleanUri(Head(matches)), "Mentioned Link", "text")>>
           \o TextCalls(Tail(matches))

\* the calls of processLink for a response, in order: citations, then text matches
CallLog(response) ==
    ChunkCalls(response.chunks) \o TextCalls(MatchUrls(Summary(response)))

(***************************************************************************)
(* Categorization and sorting.                                             *)
(***************************************************************************)
OnVideoPlatform(s, u) ==
    \/ Includes(s, "youtube") \/ Includes(s, "youtu.be") \/ Includes(s, "vimeo")
    \/ Includes(s, "tiktok") \/ Includes(s, "facebook") \/ Includes(s, "instagram")
    \/ Includes(s, "matterport") \/ Includes(u, "tour") \/ Includes(u, "video")

isVideoPlatform(source, uri) == OnVideoPlatform(toLowerCase(source), toLowerCase(uri))

IsVideo(link) == isVideoPlatform(link.source, link.uri)
IsListing(link) == ~isVideoPlatform(link.source, link.uri)

\* videoLinks: the links of allLinks on a video platform, in order
VideoLinks(links) == SelectSeq(links, IsVideo)

\* the first of the links that are not on a video platform, with the title enforced
FirstListing(listings) ==
    IF listings = <<>> THEN <<>>
    ELSE <<[listings[1] EXCEPT !.title = "Official Listing Page"]>>

\* Variant of ListingPage that keeps every link that is not on a video platform
ListingPage_KeepAll(links) == SelectSeq(links, IsListing)

\* listingPage: the first link that is not on a video platform, retitled; <<>> if none
ListingPage(links) == FirstListing(SelectSeq(links, IsListing))

\* Variant of Categorize that puts the listing page last
Categorize_ListingLast(links) == VideoLinks(links) \o ListingPage(links)

\* finalLinks before the availability check: [listingPage?, ...videoLinks]
Categorize(links) == ListingPage(links) \o VideoLinks(links)

\* Variant of isYouTube that takes every video platform for YouTube
isYouTube_AnyPlatform(video) == isVideoPlatform(video.source, video.uri)

\* the first lines of checkAvailability: only YouTube links are probed
isYouTube(video) ==
    Includes(video.source, "youtube.com") \/ Includes(video.source, "youtu.be")

(***************************************************************************)
(* The availability check (YouTube only).                                  *)
(***************************************************************************)
\* res.ok
ResOk(status) == status >= 200 /\ status <= 299

\* Variant of StatusVerdict that tests 401 and 403 only, and res.ok not at all
StatusVerdict_AuthOnly(status) ==
    IF status = 401 \/ status = 403 THEN "drop" ELSE "read"

\* what checkAvailability does with the status of the oEmbed response:
\* "drop" (return false) or "read" (go on to res.json())
StatusVerdict(status) ==
    IF status = 404 \/ status = 401 \/ status = 403 THEN "drop"
    ELSE IF ~ResOk(status) THEN "drop"
    ELSE "read"

\* Variant of BodyVerdict whose inner catch returns false
BodyVerdict_Strict(body) ==
    IF body = "unavailable" \/ body = "malformed" THEN FALSE ELSE TRUE

\* what checkAvailability returns once res.json() has settled: body is
\* "unavailable" (JSON whose title is "video unavailable"), "json" (any other
\* JSON) or "malformed" (res.json() throws, the inner catch swallows it)
BodyVerdict(body) ==
    IF body = "unavailable" THEN FALSE ELSE TRUE

\* finalLinks.filter((_, index) => availabilityResults[index])
RECURSIVE FilterFrom(_, _, _)
FilterFrom(links, verdicts, i) ==
    IF i > Len(links) THEN <<>>
    ELSE (IF verdicts[i] THEN <<links[i]>> ELSE <<>>) \o FilterFrom(links, verdicts, i + 1)

\* finalLinks.filter((_, index) => availabilityResults[index])
FilterAvailable(links, verdicts) == FilterFrom(links, verdicts, 1)

\* { summary, videos: finalLinks, found: finalLinks.length > 0 }
MakeResponse(summary, kept) ==
    [summary |-> summary, videos |-> kept, found |-> Len(kept) > 0]

\* Variant of BuildResponse that computes found before the availability filter
BuildResponse_FoundBefore(summary, links, verdicts) ==
    [summary |-> summary, videos |-> FilterAvailable(links, verdicts),
     found |-> Len(links) > 0]

\* the SearchResponse returned after the availability check
BuildResponse(summary, links, verdicts) ==
    MakeResponse(summary, FilterAvailable(links, verdicts))

(***************************************************************************)
(* getApiKey: the three places a credential is looked up, in order.        *)
(***************************************************************************)
\* Variant of getApiKey that falls back to a built-in key
getApiKey_Fallback(e) ==
    IF e.process /\ Truthy(e.API_KEY) THEN e.API_KEY
    ELSE IF Truthy(e.VITE_API_KEY) THEN e.VITE_API_KEY
    ELSE IF Truthy(e.META_API_KEY) THEN e.META_API_KEY
    ELSE Some("default-key")

getApiKey(e) ==
    IF e.process /\ Truthy(e.API_KEY) THEN e.API_KEY
    ELSE IF Truthy(e.VITE_API_KEY) THEN e.VITE_API_KEY
    ELSE IF Truthy(e.META_API_KEY) THEN e.META_API_KEY
    ELSE None

MissingKeyMessage ==
    "API Key not found. Please ensure API_KEY (or VITE_API_KEY) is set in your Render.com Environment Variables."
SearchFailedMessage ==
    "Failed to search for videos. Please check your API Key and try again."

(***************************************************************************)
(* The inputs of the model.                                                *)
(***************************************************************************)
\* environments: process absent or present, each key unset, empty or set
EnvPool ==
    { [process |-> FALSE, API_KEY |-> None, VITE_API_KEY |-> None, META_API_KEY |-> None],
      [process |-> TRUE, API_KEY |-> Some(""), VITE_API_KEY |-> None, META_API_KEY |-> Some("")],
      [process |-> TRUE, API_KEY |-> None, VITE_API_KEY |-> Some(""), META_API_KEY |-> None],
      [process |-> TRUE, API_KEY |-> Some("pk"), VITE_API_KEY |-> Some("vk"), META_API_KEY |-> None],
      [process |-> FALSE, API_KEY |-> None, VITE_API_KEY |-> None, META_API_KEY |-> Some("mk")] }

\* grounding chunks (chunk.web.uri, chunk.web.title) the external search may return
ChunkPool ==
    { [uri |-> Some("https://zillow.com/homedetails/abc"), title |-> Some("Listing")],
      [uri |-> Some("https://youtube.com/watch?v=xyz"), title |-> Some("Home Tour")],
      [uri |-> Some("https://youtube.com/watch?v=xyz"),
       title |-> Some("How to verify YouTube channel")],
      [uri |-> Some("https://youtube.com/channel/UC123"), title |-> Some("Agent")],
      [uri |-> Some("httpx://example.com/listing/1"), title |-> None],
      [uri |-> Some("www.youtube.com/watch?v=xyz"), title |-> Some("Home Tour")],
      [uri |-> Some("http://"), title |-> None] }

\* sentences the free-text summary may be made of
SentencePool ==
    { "Watch https://youtube.com/watch?v=xyz.",
      "Listing (https://zillow.com/homedetails/abc), 3 beds.",
      "Drone footage: <https://vimeo.com/98765>",
      "See https://youtube.com/channel/UC123 and https://youtu.be/Qq1" }

\* the HTTP statuses an oEmbed probe may answer with
StatusPool == {200, 401, 403, 404, 500}

\* what res.json() may do
BodyPool == {"json", "unavailable", "malformed"}

SeqsUpTo(S, n) == UNION {[1..k -> S] : k \in 0..n}

RECURSIVE Join(_)
\* the sentences separated by a space
Join(ss) ==
    IF Len(ss) = 0 THEN ""
    ELSE IF Len(ss) = 1 THEN ss[1]
    ELSE ss[1] \o " " \o Join(Tail(ss))

\* the responses of ai.models.generateContent: response.text is undefined
\* when the model returned no text part
Responses ==
    { [text |-> IF ss = <<>> THEN None ELSE Some(Join(ss)), chunks |-> cs] :
        cs \in SeqsUpTo(ChunkPool, MaxChunks), ss \in SeqsUpTo(SentencePool, MaxSentences) }

(***************************************************************************)
(* The search form of App.tsx.                                             *)
(***************************************************************************)
RECURSIVE JoinWith(_, _)
\* parts.join(sep)
JoinWith(parts, sep) ==
    IF Len(parts) = 0 THEN ""
    ELSE IF Len(parts) = 1 THEN parts[1]
    ELSE parts[1] \o sep \o JoinWith(Tail(parts), sep)

\* Variant of MissingField that tests the raw value, without trim()
MissingField_NoTrim(value, label) == IF value = "" THEN <<label>> ELSE <<>>

\* one validation line of handleSearch: if (!value.trim()) missingFields.push(label)
MissingField(value, label) == IF Trim(value) = "" THEN <<label>> ELSE <<>>

\* missingFields, in the order handleSearch pushes them
MissingFields(addr, mls) ==
    MissingField(addr.street, "Street Address") \o MissingField(addr.city, "City")
      \o MissingField(addr.state, "State") \o MissingField(addr.zip, "Zip Code")
      \o MissingField(mls, "MLS Number")

\* the message handleSearch sets when fields are missing
MissingFieldsMessage(missingFields) ==
    "Please fill in the following required field(s): " \o JoinWith(missingFields, ", ")

\* { ...address, mlsNumber }
PropertyDetails(addr, mls) ==
    [street |-> addr.street, city |-> addr.city, state |-> addr.state, zip |-> addr.zip,
     mlsNumber |-> mls]

EmptyAddress == [street |-> "", city |-> "", state |-> "", zip |-> ""]

\* what the user may type into each field
FieldPool ==
    [street |-> {"", " ", "123 Maple Dr", "9 Oak Ln"},
     city |-> {"", "Beverly Hills"},
     state |-> {"", "CA"},
     zip |-> {"", " 90210"},
     mlsNumber |-> {"", "MLS123"}]

AddressFields == {"street", "city", "state", "zip"}

\* responses of the external search behind the SearchResponses the form receives
FormResponsePool ==
    { [text |-> None, chunks |-> <<>>],
      [text |-> Some("Watch https://youtube.com/watch?v=xyz."),
       chunks |-> <<[uri |-> Some("https://zillow.com/homedetails/abc"),
                     title |-> Some("Listing")]>>] }

\* the SearchResponse for response r when every probe answers available
SearchResponseOf(r, available) ==
    BuildResponse(Summary(r), Categorize(AllLinks(r)),
                  [i \in 1..Len(Categorize(AllLinks(r))) |->
                     ~isYouTube(Categorize(AllLinks(r))[i]) \/ available])

\* the SearchResponses searchPropertyVideos resolves with for these responses
ComputedResponses == {SearchResponseOf(r, a) : r \in FormResponsePool, a \in BOOLEAN}

\* the SearchResponses searchPropertyVideos may resolve with: ComputedResponses
\* written out (the initial states require the two to be equal)
FormResponses ==
    {[summary |-> "No summary provided.", videos |-> <<>>, found |-> FALSE],
     [summary |-> "Watch https://youtube.com/watch?v=xyz.",
      videos |-> <<[title |-> "Official Listing Page",
                    uri |-> "https://zillow.com/homedetails/abc",
                    source |-> "zillow.com"]>>,
      found |-> TRUE],
     [summary |-> "Watch https://youtube.com/watch?v=xyz.",
      videos |-> <<[title |-> "Official Listing Page",
                    uri |-> "https://zillow.com/homedetails/abc",
                    source |-> "zillow.com"],
                   [title |-> "Mentioned Link",
                    uri |-> "https://youtube.com/watch?v=xyz",
                    source |-> "youtube.com"]>>,
      found |-> TRUE]}

\* the messages searchPropertyVideos may reject with
FormErrors == {MissingKeyMessage, SearchFailedMessage}

\* videos without the entry at index (1-based): splice(index, 1)
Splice(videos, index) ==
    SubSeq(videos, 1, index - 1) \o SubSeq(videos, index + 1, Len(videos))

(***************************************************************************)
(* State.                                                                  *)
(***************************************************************************)
VARIABLES
    \* --- one invocation of searchPropertyVideos ---
    env,           \* process.env / import.meta.env
    pc,            \* "idle", "awaitGenerate", "awaitProbes", "returned", "threw"
    response,      \* the response of generateContent, once received
    calls,         \* the calls of processLink made for it, in order
    allLinks,      \* Array.from(uniqueLinks.values()), as of line 176
    finalLinks,    \* the categorized list handed to the availability check
    probes,        \* per entry of finalLinks: the state of its checkAvailability call
    result,        \* the SearchResponse the promise resolved with
    thrown,        \* the message of the Error the promise rejected with
    generateCalls, \* requests sent to the generative search
    fetches,       \* URIs for which an oEmbed request was sent
    \* --- the search form of App ---
    address,       \* useState: street, city, state, zip
    mlsNumber,     \* useState
    loading,       \* useState
    error,         \* useState: string | null
    results,       \* useState: SearchResponse | null
    saveStatus,    \* useState: 'idle' | 'saving' | 'saved' | 'error'
    pending,       \* the details of the searchPropertyVideos call handleSearch awaits
    origin,        \* where the results in `results` came from, and with which details
    \* --- one invocation of generatePromotionalVideo ---
    aistudio,      \* whether window.aistudio is defined
    promoPc,       \* the await or statement the call is at
    operation,     \* the operation handle, once generateVideos has answered
    caught,        \* the message of the error the catch of line 315 received
    promoThrown,   \* the message of the Error the promise rejected with
    promoResult,   \* the URL the promise resolved with
    promoKey,      \* apiKey, as read at line 282
    polls,         \* calls of getVideosOperation (saturating at MaxPolls)
    videoCalls,    \* calls of generateVideos
    \* --- sign-in, saved searches and the history view of App ---
    user,          \* useState: the signed-in user, or null
    db,            \* whether Firebase is configured (auth, db and googleProvider are set)
    store,         \* the saved searches in Firestore (db) or in localStorage (no db)
    historyList,   \* useState
    showHistory,   \* useState
    loadingHistory, \* useState
    historyError,  \* useState
    editingId,     \* useState
    editTitleValue, \* useState
    alert,         \* the message of the window.alert the last handler of this part raised
    clock,         \* the time: it advances with every persistence call of this session
    saveOps,       \* addDoc calls in flight
    shareOps,      \* updateDoc({sharedWith}) calls in flight
    deleteOps,     \* deleteDoc calls in flight
    renameOps,     \* updateDoc({title}) calls in flight
    loadOps,       \* loadHistory calls in flight
    timers         \* pending setTimeout(() => setSaveStatus('idle'), 3000)

serviceVars ==
    <<env, pc, response, calls, allLinks, finalLinks, probes, result, thrown, generateCalls, fetches>>

formVars == <<address, mlsNumber, loading, error, results, saveStatus, pending, origin>>

promoVars ==
    <<aistudio, promoPc, operation, caught, promoThrown, promoResult, promoKey, polls, videoCalls>>

appVars ==
    <<user, db, store, historyList, showHistory, loadingHistory, historyError, editingId,
      editTitleValue, alert, clock, saveOps, shareOps, deleteOps, renameOps, loadOps, timers>>

vars == <<serviceVars, formVars, promoVars, appVars>>

\* the state of one checkAvailability call
NotProbed == [phase |-> "settled", how |-> "skipped", status |-> 0, verdict |-> TRUE]
Fetching == [phase |-> "fetching", how |-> "pending", status |-> 0, verdict |-> FALSE]
Settled(how, status, verdict) ==
    [phase |-> "settled", how |-> how, status |-> status, verdict |-> verdict]

\* searchPropertyVideos has not been called
ServiceIdle ==
    /\ pc = "idle"
    /\ response = None
    /\ calls = <<>>
    /\ allLinks = <<>>
    /\ finalLinks = <<>>
    /\ probes = <<>>
    /\ result = None
    /\ thrown = None
    /\ generateCalls = 0
    /\ fetches = {}

\* the results came from the search issued with these details (lines 114-116)
Searched(details) == Some([how |-> "search", details |-> details])

\* the results came from the saved search with these details (lines 272-274)
Restored(details) == Some([how |-> "restore", details |-> details])

\* the useState initial values of App
FormInitial ==
    /\ address = EmptyAddress
    /\ mlsNumber = ""
    /\ loading = FALSE
    /\ error = None
    /\ results = None
    /\ saveStatus = "idle"
    /\ pending = None
    /\ origin = None

\* generatePromotionalVideo has not been called
PromoIdle ==
    /\ promoPc = "idle"
    /\ operation = None
    /\ caught = None
    /\ promoThrown = None
    /\ promoResult = None
    /\ promoKey = None
    /\ polls = 0
    /\ videoCalls = 0

\* the useState initial values of App for sign-in and history, with nothing in flight
AppInitial ==
    /\ user = None
    /\ historyList = <<>>
    /\ showHistory = FALSE
    /\ loadingHistory = FALSE
    /\ historyError = None
    /\ editingId = None
    /\ editTitleValue = ""
    /\ alert = None
    /\ saveOps = {}
    /\ shareOps = {}
    /\ deleteOps = {}
    /\ renameOps = {}
    /\ loadOps = {}
    /\ timers = 0

\* no Firebase, nothing saved
NoStore ==
    /\ db = FALSE
    /\ store = <<>>
    /\ clock = 0

Init ==
    /\ env \in EnvPool
    /\ ServiceIdle
    /\ FormInitial
    /\ aistudio = FALSE
    /\ PromoIdle
    /\ AppInitial
    /\ NoStore

(***************************************************************************)
(* searchPropertyVideos, step by step.                                     *)
(***************************************************************************)
\* lines 28-101: look the key up; without one throw, with one send the request
SearchStart ==
    /\ pc = "idle"
    /\ IF ~Truthy(getApiKey(env))
       THEN /\ pc' = "threw"
            /\ thrown' = Some(MissingKeyMessage)
            /\ UNCHANGED generateCalls
       ELSE /\ pc' = "awaitGenerate"
            /\ generateCalls' = generateCalls + 1
            /\ UNCHANGED thrown
    /\ UNCHANGED <<env, response, calls, allLinks, finalLinks, probes, result, fetches, formVars, promoVars, appVars>>

\* lines 103-253: the response arrives; extract, categorize, and start one
\* checkAvailability per entry, each running up to its first await
GenerateResolves ==
    /\ pc = "awaitGenerate"
    /\ \E r \in Responses :
         /\ response' = Some(r)
         /\ calls' = CallLog(r)
         /\ allLinks' = AllLinks(r)
    /\ finalLinks' = Categorize(allLinks')
    /\ probes' = [i \in 1..Len(finalLinks') |->
                    IF isYouTube(finalLinks'[i]) THEN Fetching ELSE NotProbed]
    /\ fetches' = {finalLinks'[i].uri : i \in {j \in 1..Len(finalLinks') : probes'[j] = Fetching}}
    /\ pc' = "awaitProbes"
    /\ UNCHANGED <<env, result, thrown, generateCalls, formVars, promoVars, appVars>>

\* Variant of GenerateRejects that sends the request a second time before giving up
GenerateRejects_Retry ==
    /\ pc = "awaitGenerate"
    /\ IF generateCalls < 2
       THEN /\ generateCalls' = generateCalls + 1
            /\ UNCHANGED <<pc, thrown>>
       ELSE /\ pc' = "threw"
            /\ thrown' = Some(SearchFailedMessage)
            /\ UNCHANGED generateCalls
    /\ UNCHANGED <<env, response, calls, allLinks, finalLinks, probes, result, fetches, formVars, promoVars, appVars>>

\* lines 262-265: the request fails; the catch rethrows the generic message
GenerateRejects ==
    /\ pc = "awaitGenerate"
    /\ pc' = "threw"
    /\ thrown' = Some(SearchFailedMessage)
    /\ UNCHANGED <<env, response, calls, allLinks, finalLinks, probes, result, generateCalls, fetches, formVars, promoVars, appVars>>

\* lines 223-238: fetch resolves with a status
ProbeFetchResolves ==
    /\ pc = "awaitProbes"
    /\ \E i \in 1..Len(finalLinks) :
         /\ probes[i].phase = "fetching"
         /\ \E status \in StatusPool :
              probes' = [probes EXCEPT ![i] =
                           IF StatusVerdict(status) = "drop"
                           THEN Settled("status", status, FALSE)
                           ELSE [phase |-> "reading", how |-> "status", status |-> status,
                                 verdict |-> FALSE]]
    /\ UNCHANGED <<env, pc, response, calls, allLinks, finalLinks, result, thrown, generateCalls, fetches, formVars, promoVars, appVars>>

\* Variant of ProbeFetchThrows whose catch returns true
ProbeFetchThrows_Keeps ==
    /\ pc = "awaitProbes"
    /\ \E i \in 1..Len(finalLinks) :
         /\ probes[i].phase = "fetching"
         /\ probes' = [probes EXCEPT ![i] = Settled("threw", 0, TRUE)]
    /\ UNCHANGED <<env, pc, response, calls, allLinks, finalLinks, result, thrown, generateCalls, fetches, formVars, promoVars, appVars>>

\* lines 246-249: fetch rejects with a network error
ProbeFetchThrows ==
    /\ pc = "awaitProbes"
    /\ \E i \in 1..Len(finalLinks) :
         /\ probes[i].phase = "fetching"
         /\ probes' = [probes EXCEPT ![i] = Settled("threw", 0, FALSE)]
    /\ UNCHANGED <<env, pc, response, calls, allLinks, finalLinks, result, thrown, generateCalls, fetches, formVars, promoVars, appVars>>

\* lines 221, 246-249: the 3000 ms timer fires before fetch resolved and aborts it
ProbeTimeout ==
    /\ pc = "awaitProbes"
    /\ \E i \in 1..Len(finalLinks) :
         /\ probes[i].phase = "fetching"
         /\ probes' = [probes EXCEPT ![i] = Settled("timeout", 0, FALSE)]
    /\ UNCHANGED <<env, pc, response, calls, allLinks, finalLinks, result, thrown, generateCalls, fetches, formVars, promoVars, appVars>>

\* lines 240-245: res.json() settles
ProbeBodySettles ==
    /\ pc = "awaitProbes"
    /\ \E i \in 1..Len(finalLinks) :
         /\ probes[i].phase = "reading"
         /\ \E body \in BodyPool :
              probes' = [probes EXCEPT ![i] = Settled(body, probes[i].status, BodyVerdict(body))]
    /\ UNCHANGED <<env, pc, response, calls, allLinks, finalLinks, result, thrown, generateCalls, fetches, formVars, promoVars, appVars>>

\* Variant of AllProbesSettled that resolves with the first check that returns
AllProbesSettled_Race ==
    /\ pc = "awaitProbes"
    /\ \E i \in 1..Len(finalLinks) : probes[i].phase = "settled"
    /\ result' = Some(BuildResponse(Summary(response.val), finalLinks,
                                    [i \in 1..Len(finalLinks) |-> probes[i].verdict]))
    /\ pc' = "returned"
    /\ UNCHANGED <<env, response, calls, allLinks, finalLinks, probes, thrown, generateCalls, fetches, formVars, promoVars, appVars>>

\* lines 253-260: Promise.all resolves once every checkAvailability has returned
AllProbesSettled ==
    /\ pc = "awaitProbes"
    /\ \A i \in 1..Len(finalLinks) : probes[i].phase = "settled"
    /\ result' = Some(BuildResponse(Summary(response.val), finalLinks,
                                    [i \in 1..Len(finalLinks) |-> probes[i].verdict]))
    /\ pc' = "returned"
    /\ UNCHANGED <<env, response, calls, allLinks, finalLinks, probes, thrown, generateCalls, fetches, formVars, promoVars, appVars>>

Next ==
    \/ SearchStart
    \/ GenerateResolves
    \/ GenerateRejects
    \/ ProbeFetchResolves
    \/ ProbeFetchThrows
    \/ ProbeTimeout
    \/ ProbeBodySettles
    \/ AllProbesSettled

Spec == Init /\ [][Next]_vars

\* What the code itself schedules: the call runs on, the generative search
\* settles, the 3000 ms timer of a check that still awaits fetch fires, and
\* Promise.all resolves once every check has returned. Whether and when the
\* oEmbed endpoint answers (headers, then body) is left to the endpoint.
LiveSpec ==
    /\ Init
    /\ [][Next]_vars
    /\ WF_vars(SearchStart)
    /\ WF_vars(GenerateResolves \/ GenerateRejects)
    /\ WF_vars(ProbeTimeout)
    /\ WF_vars(AllProbesSettled)

(***************************************************************************)
(* The handlers of the search form.                                        *)
(***************************************************************************)
\* App.tsx lines 86-90: a keystroke in an address field
handleInputChange ==
    /\ \E name \in AddressFields : \E value \in FieldPool[name] :
         address' = [address EXCEPT ![name] = value]
    /\ error' = None
    /\ UNCHANGED <<mlsNumber, loading, results, saveStatus, pending, origin, serviceVars, promoVars, appVars>>

\* App.tsx lines 602-605: a keystroke in the MLS field
handleMlsChange ==
    /\ \E value \in FieldPool.mlsNumber : mlsNumber' = value
    /\ error' = None
    /\ UNCHANGED <<address, loading, results, saveStatus, pending, origin, serviceVars, promoVars, appVars>>

\* App.tsx lines 92-115: the form is submitted (the button is disabled while loading)
handleSearch ==
    /\ ~loading
    /\ IF Len(MissingFields(address, mlsNumber)) > 0
       THEN /\ error' = Some(MissingFieldsMessage(MissingFields(address, mlsNumber)))
            /\ UNCHANGED <<loading, results, saveStatus, pending, origin>>
       ELSE /\ loading' = TRUE
            /\ error' = None
            /\ results' = None
            /\ saveStatus' = "idle"
            /\ pending' = Some(PropertyDetails(address, mlsNumber))
            /\ origin' = None
    /\ UNCHANGED <<address, mlsNumber, serviceVars, promoVars, appVars>>

\* App.tsx lines 115-121: searchPropertyVideos resolves
SearchResolves ==
    /\ pending.some
    /\ \E r \in FormResponses : results' = Some(r)
    /\ origin' = Searched(pending.val)
    /\ loading' = FALSE
    /\ pending' = None
    /\ UNCHANGED <<address, mlsNumber, error, saveStatus, serviceVars, promoVars, appVars>>

\* App.tsx lines 117-121: searchPropertyVideos rejects
SearchRejects ==
    /\ pending.some
    /\ \E message \in FormErrors :
         error' = Some(IF message # "" THEN message ELSE "An unexpected error occurred.")
    /\ loading' = FALSE
    /\ pending' = None
    /\ UNCHANGED <<address, mlsNumber, results, saveStatus, origin, serviceVars, promoVars,
                   appVars>>

\* App.tsx lines 428-436: Reset is shown with results or an error, disabled while loading
handleReset ==
    /\ results.some \/ error.some
    /\ ~loading
    /\ address' = EmptyAddress
    /\ mlsNumber' = ""
    /\ results' = None
    /\ error' = None
    /\ saveStatus' = "idle"
    /\ origin' = None
    /\ UNCHANGED <<loading, pending, serviceVars, promoVars, appVars>>

\* Variant of handleDeleteVideo that sets found again from the videos left
handleDeleteVideo_Recomputes ==
    /\ results.some
    /\ ~loading
    /\ results.val.found
    /\ \E index \in 1..Len(results.val.videos) :
         results' = Some(MakeResponse(results.val.summary, Splice(results.val.videos, index)))
    /\ UNCHANGED <<address, mlsNumber, loading, error, saveStatus, pending, origin, serviceVars, promoVars, appVars>>

\* App.tsx lines 438-443: a result card's delete button (App.tsx lines 677, 744:
\* the cards are shown while not loading, for results with found set)
handleDeleteVideo ==
    /\ results.some
    /\ ~loading
    /\ results.val.found
    /\ \E index \in 1..Len(results.val.videos) :
         results' = Some([results.val EXCEPT !.videos = Splice(@, index)])
    /\ UNCHANGED <<address, mlsNumber, loading, error, saveStatus, pending, origin, serviceVars, promoVars, appVars>>

FormInit ==
    /\ FormResponses = ComputedResponses
    /\ env = [process |-> TRUE, API_KEY |-> Some("pk"), VITE_API_KEY |-> None,
              META_API_KEY |-> None]
    /\ ServiceIdle
    /\ FormInitial
    /\ aistudio = FALSE
    /\ PromoIdle
    /\ AppInitial
    /\ NoStore

FormNext ==
    \/ handleInputChange
    \/ handleMlsChange
    \/ handleSearch
    \/ SearchResolves
    \/ SearchRejects
    \/ handleReset
    \/ handleDeleteVideo

FormSpec == FormInit /\ [][FormNext]_vars

(***************************************************************************)
(* generatePromotionalVideo, step by step.                                 *)
(***************************************************************************)
NoKeyMessage == "API Key not found"
NoUriMessage == "Video generation completed but no URI was returned."
PromoFailedMessage == "Failed to generate promotional video."
\* errors that come from outside: a rejected call of the video API, of aistudio
ApiErrorMessage == "503 Service Unavailable"
AistudioErrorMessage == "aistudio: key selection failed"

\* the key a user may select in the aistudio dialog, injected into process.env
SelectedKeyEnv(e) == [e EXCEPT !.process = TRUE, !.API_KEY = Some("sk")]

\* what generateVideos and getVideosOperation may answer: the completion flag
\* and operation.response?.generatedVideos?.[0]?.video?.uri
OperationPool ==
    {[done |-> FALSE, uri |-> None],
     [done |-> FALSE, uri |-> Some("https://veo.example/partial?alt=media")],
     [done |-> TRUE, uri |-> None],
     [done |-> TRUE, uri |-> Some("")],
     [done |-> TRUE, uri |-> Some("https://veo.example/v1?alt=media")]}

\* `${videoUri}&key=${apiKey}`
PromoUrl(videoUri, apiKey) == videoUri \o "&key=" \o apiKey

searchVars ==
    <<pc, response, calls, allLinks, finalLinks, probes, result, thrown, generateCalls, fetches>>

\* lines 268-274: the call begins; with aistudio it asks whether a key is selected
PromoStart ==
    /\ promoPc = "idle"
    /\ promoPc' = IF aistudio THEN "awaitHasKey" ELSE "readKey"
    /\ UNCHANGED <<aistudio, operation, caught, promoThrown, promoResult, promoKey, polls,
                   videoCalls, serviceVars, formVars, appVars>>

\* lines 274-277: hasSelectedApiKey resolves; without a key the dialog is opened
HasKeyResolves ==
    /\ promoPc = "awaitHasKey"
    /\ \E hasKey \in BOOLEAN :
         promoPc' = IF ~hasKey THEN "awaitOpenSelect" ELSE "readKey"
    /\ UNCHANGED <<aistudio, operation, caught, promoThrown, promoResult, promoKey, polls,
                   videoCalls, serviceVars, formVars, appVars>>

\* line 276: openSelectKey resolves; the user may or may not have selected a key
OpenSelectResolves ==
    /\ promoPc = "awaitOpenSelect"
    /\ env' \in {env, SelectedKeyEnv(env)}
    /\ promoPc' = "readKey"
    /\ UNCHANGED <<aistudio, operation, caught, promoThrown, promoResult, promoKey, polls,
                   videoCalls, searchVars, formVars, appVars>>

\* lines 274, 276: a call of aistudio rejects, outside the try: the error leaves as it is
AistudioRejects ==
    /\ promoPc \in {"awaitHasKey", "awaitOpenSelect"}
    /\ promoPc' = "threw"
    /\ promoThrown' = Some(AistudioErrorMessage)
    /\ UNCHANGED <<aistudio, operation, caught, promoResult, promoKey, polls, videoCalls,
                   serviceVars, formVars, appVars>>

\* lines 282-300: read the key; without one throw, with one call generateVideos
ReadKey ==
    /\ promoPc = "readKey"
    /\ IF ~Truthy(getApiKey(env))
       THEN /\ promoPc' = "threw"
            /\ promoThrown' = Some(NoKeyMessage)
            /\ UNCHANGED <<promoKey, videoCalls>>
       ELSE /\ promoPc' = "awaitVideos"
            /\ promoKey' = getApiKey(env)
            /\ videoCalls' = videoCalls + 1
            /\ UNCHANGED promoThrown
    /\ UNCHANGED <<aistudio, operation, caught, promoResult, polls, serviceVars, formVars, appVars>>

\* lines 291-300: generateVideos resolves with the operation handle
VideosResolves ==
    /\ promoPc = "awaitVideos"
    /\ \E op \in OperationPool : operation' = Some(op)
    /\ promoPc' = "loopTest"
    /\ UNCHANGED <<aistudio, caught, promoThrown, promoResult, promoKey, polls, videoCalls,
                   serviceVars, formVars, appVars>>

\* lines 291, 315: generateVideos rejects; the catch receives the error
VideosRejects ==
    /\ promoPc = "awaitVideos"
    /\ caught' = Some(ApiErrorMessage)
    /\ promoPc' = "caught"
    /\ UNCHANGED <<aistudio, operation, promoThrown, promoResult, promoKey, polls, videoCalls,
                   serviceVars, formVars, appVars>>

\* Variant of LoopTest that stops polling once MaxPolls polls were made
LoopTest_GiveUp ==
    /\ promoPc = "loopTest"
    /\ IF ~operation.val.done /\ polls < MaxPolls
       THEN /\ promoPc' = "sleeping"
            /\ UNCHANGED <<caught, promoResult>>
       ELSE IF ~Truthy(operation.val.uri)
       THEN /\ promoPc' = "caught"
            /\ caught' = Some(NoUriMessage)
            /\ UNCHANGED promoResult
       ELSE /\ promoPc' = "returned"
            /\ promoResult' = Some(PromoUrl(operation.val.uri.val, promoKey.val))
            /\ UNCHANGED caught
    /\ UNCHANGED <<aistudio, operation, promoThrown, promoKey, polls, videoCalls,
                   serviceVars, formVars, appVars>>

\* lines 302-313: while (!operation.done) sleep and poll; once done, read the
\* URI: without one throw (into the catch), with one return the URL
LoopTest ==
    /\ promoPc = "loopTest"
    /\ IF ~operation.val.done
       THEN /\ promoPc' = "sleeping"
            /\ UNCHANGED <<caught, promoResult>>
       ELSE IF ~Truthy(operation.val.uri)
       THEN /\ promoPc' = "caught"
            /\ caught' = Some(NoUriMessage)
            /\ UNCHANGED promoResult
       ELSE /\ promoPc' = "returned"
            /\ promoResult' = Some(PromoUrl(operation.val.uri.val, promoKey.val))
            /\ UNCHANGED caught
    /\ UNCHANGED <<aistudio, operation, promoThrown, promoKey, polls, videoCalls,
                   serviceVars, formVars, appVars>>

\* lines 303-304: the 5000 ms timer fires and getVideosOperation is called
TimerFires ==
    /\ promoPc = "sleeping"
    /\ promoPc' = "awaitOperation"
    /\ polls' = IF polls < MaxPolls THEN polls + 1 ELSE MaxPolls
    /\ UNCHANGED <<aistudio, operation, caught, promoThrown, promoResult, promoKey, videoCalls,
                   serviceVars, formVars, appVars>>

\* line 304: getVideosOperation resolves with the operation's present status
OperationResolves ==
    /\ promoPc = "awaitOperation"
    /\ \E op \in OperationPool : operation' = Some(op)
    /\ promoPc' = "loopTest"
    /\ UNCHANGED <<aistudio, caught, promoThrown, promoResult, promoKey, polls, videoCalls,
                   serviceVars, formVars, appVars>>

\* lines 304, 315: getVideosOperation rejects; the catch receives the error
OperationRejects ==
    /\ promoPc = "awaitOperation"
    /\ caught' = Some(ApiErrorMessage)
    /\ promoPc' = "caught"
    /\ UNCHANGED <<aistudio, operation, promoThrown, promoResult, promoKey, polls, videoCalls,
                   serviceVars, formVars, appVars>>

\* lines 315-318: the catch logs the error and throws the generic one
CatchRethrows ==
    /\ promoPc = "caught"
    /\ promoPc' = "threw"
    /\ promoThrown' = Some(PromoFailedMessage)
    /\ UNCHANGED <<aistudio, operation, caught, promoResult, promoKey, polls, videoCalls,
                   serviceVars, formVars, appVars>>

PromoInit ==
    /\ env \in EnvPool
    /\ aistudio \in BOOLEAN
    /\ ServiceIdle
    /\ FormInitial
    /\ PromoIdle
    /\ AppInitial
    /\ NoStore

PromoNext ==
    \/ PromoStart
    \/ HasKeyResolves
    \/ OpenSelectResolves
    \/ AistudioRejects
    \/ ReadKey
    \/ VideosResolves
    \/ VideosRejects
    \/ LoopTest
    \/ TimerFires
    \/ OperationResolves
    \/ OperationRejects
    \/ CatchRethrows

\* every awaited call settles and every timer fires: a step that can be taken
\* is taken
PromoSpec == PromoInit /\ [][PromoNext]_vars /\ WF_vars(PromoNext)

(***************************************************************************)
(* Sign-in, saved searches and the history view of App.                    *)
(***************************************************************************)
\* persistence calls (save, share, delete, rename) one session may start
MaxWrites == 1
\* loadHistory calls that may be in flight together
MaxLoads == 1

\* the accounts that may sign in with Google
UserPool ==
    {[uid |-> "u1", email |-> Some("Ann@Example.com")],
     [uid |-> "u2", email |-> Some("bob@example.com")]}

\* the guest user of handleLogin: uid 'guest-' + Date.now()
GuestUser(time) == [uid |-> "guest-" \o ToString(time), email |-> Some("guest@demo.com")]

\* a form filled with valid details
FilledAddress ==
    [street |-> "123 Maple Dr", city |-> "Beverly Hills", state |-> "CA", zip |-> " 90210"]

\* the saved searches Firestore holds when the session begins: one of u1, and
\* one of u2 that is shared with u1
StoredDocs ==
    <<[id |-> "doc-1", userId |-> "u1", timestamp |-> 1, title |-> "123 Maple Dr",
       propertyDetails |-> PropertyDetails(FilledAddress, "MLS123"),
       results |-> [summary |-> "Found a listing.", found |-> TRUE,
                    videos |-> <<[title |-> "Official Listing Page",
                                  uri |-> "https://zillow.com/homedetails/abc",
                                  source |-> "zillow.com"]>>],
       sharedWith |-> <<>>],
      [id |-> "doc-2", userId |-> "u2", timestamp |-> 2, title |-> "",
       propertyDetails |-> PropertyDetails([FilledAddress EXCEPT !.street = "9 Oak Ln"], "MLS123"),
       results |-> [summary |-> "No summary provided.", found |-> FALSE, videos |-> <<>>],
       sharedWith |-> <<"ann@example.com">>]>>

\* what the user may answer to prompt(): None is Cancel
PromptPool ==
    {None, Some(""), Some(" Carol@Example.com "), Some("carol@example"),
     Some("dave@example.com")}

\* what the user may type into the title input of the history view
TitlePool == {"", "Beach house"}

\* the entries of s at the indexes in I, in the order of s
Pick(s, I) ==
    [k \in 1..Cardinality(I) |-> s[CHOOSE i \in I : Cardinality({j \in I : j < i}) = k - 1]]

\* array.filter(s => s.id !== itemId)
WithoutId(list, itemId) == Pick(list, {i \in 1..Len(list) : list[i].id # itemId})

\* array.includes(x)
ArrayIncludes(list, x) == \E i \in 1..Len(list) : list[i] = x

HasId(list, itemId) == \E i \in 1..Len(list) : list[i].id = itemId

RECURSIVE InsertDesc(_, _)
\* x put into a list sorted by descending timestamp, after the entries that
\* compare equal (Array.prototype.sort is stable)
InsertDesc(sorted, x) ==
    IF sorted = <<>> THEN <<x>>
    ELSE IF Head(sorted).timestamp >= x.timestamp
    THEN <<Head(sorted)>> \o InsertDesc(Tail(sorted), x)
    ELSE <<x>> \o sorted

RECURSIVE SortDescFrom(_, _)
SortDescFrom(sorted, rest) ==
    IF rest = <<>> THEN sorted
    ELSE SortDescFrom(InsertDesc(sorted, Head(rest)), Tail(rest))

\* items.sort((a, b) => b.timestamp - a.timestamp)
SortDesc(items) == SortDescFrom(<<>>, items)

\* the documents a query where('userId', '==', uid) returns
OwnedDocs(docs, uid) == Pick(docs, {i \in 1..Len(docs) : docs[i].userId = uid})

\* the documents a query where('sharedWith', 'array-contains', email) returns
SharedDocs(docs, email) ==
    Pick(docs, {i \in 1..Len(docs) : ArrayIncludes(docs[i].sharedWith, email)})

\* lines 198-213: owned documents, then the shared ones not among them, sorted
MergeHistory(owned, shared) ==
    SortDesc(owned \o Pick(shared, {i \in 1..Len(shared) : ~HasId(owned, shared[i].id)}))

\* /^[^\s@]+@[^\s@]+\.[^\s@]+$/.test(e)
ValidEmail(e) ==
    /\ \A i \in 1..Len(e) : Char(e, i) \notin WhiteSpace
    /\ Cardinality({i \in 1..Len(e) : Char(e, i) = "@"}) = 1
    /\ \E a \in 2..Len(e) :
         /\ Char(e, a) = "@"
         /\ \E d \in (a + 2)..(Len(e) - 1) : Char(e, d) = "."

\* email.toLowerCase().trim()
NormalizeEmail(email) == Trim(toLowerCase(email))

\* db && !itemId.startsWith('local-')
UsesFirestore(itemId) == db /\ ~StartsWith(itemId, "local-")

\* the record handleSaveSearch builds (lines 129-136)
SearchData(u, time, addr, mls, res) ==
    [userId |-> u.uid, timestamp |-> time, title |-> addr.street,
     propertyDetails |-> PropertyDetails(addr, mls), results |-> res]

\* the stored document for searchData under the id given to it
StoredDoc(data, itemId) ==
    [id |-> itemId, userId |-> data.userId, timestamp |-> data.timestamp,
     title |-> data.title, propertyDetails |-> data.propertyDetails,
     results |-> data.results, sharedWith |-> <<>>]

\* Variant of WithTitle that writes the record anew, without its sharing list
WithTitle_Replaces(list, itemId, title) ==
    [i \in 1..Len(list) |->
       IF list[i].id = itemId THEN [list[i] EXCEPT !.title = title, !.sharedWith = <<>>]
       ELSE list[i]]

\* list.map(s => s.id === itemId ? { ...s, title } : s)
WithTitle(list, itemId, title) ==
    [i \in 1..Len(list) |->
       IF list[i].id = itemId THEN [list[i] EXCEPT !.title = title] ELSE list[i]]

\* list.map(s => s.id === itemId ? { ...s, sharedWith } : s)
WithSharedWith(list, itemId, sharedWith) ==
    [i \in 1..Len(list) |->
       IF list[i].id = itemId THEN [list[i] EXCEPT !.sharedWith = sharedWith] ELSE list[i]]

\* the results of a search that found more than one video
ShownResponses == {r \in FormResponses : Len(r.videos) > 1}

\* the session may start another persistence call; a guest, whose session
\* begins with nothing saved, has one more to save with
CanWrite == clock < Len(StoredDocs) + MaxWrites + (IF db THEN 0 ELSE 1)

\* the history view shows its list (lines 798, 817-823)
ListShown == showHistory /\ ~loadingHistory /\ user.some

\* lines 54-76: Login; with Firebase the popup resolves (the auth listener of
\* lines 45-52 then sets the user) or rejects, without it a guest user is made
handleLogin ==
    /\ ~user.some
    /\ IF db
       THEN \/ /\ \E u \in UserPool : user' = Some(u)
               /\ error' = None
            \/ /\ error' = Some("Login failed: popup closed by user")
               /\ UNCHANGED user
       ELSE /\ user' = Some(GuestUser(clock))
            /\ error' = None
    /\ alert' = None
    /\ UNCHANGED <<address, mlsNumber, loading, results, saveStatus, pending, origin, db, store,
                   historyList, showHistory, loadingHistory, historyError, editingId,
                   editTitleValue, clock, saveOps, shareOps, deleteOps, renameOps, loadOps,
                   timers, serviceVars, promoVars>>

\* lines 78-84: Logout
handleLogout ==
    /\ user.some
    /\ user' = None
    /\ historyList' = <<>>
    /\ alert' = None
    /\ UNCHANGED <<address, mlsNumber, loading, error, results, saveStatus, pending, origin, db, store,
                   showHistory, loadingHistory, historyError, editingId, editTitleValue, clock,
                   saveOps, shareOps, deleteOps, renameOps, loadOps, timers, serviceVars,
                   promoVars>>

\* lines 45-52: the auth listener reports that the user is signed out (the
\* session ended elsewhere); a sign-in it reports is part of handleLogin
onAuthStateChanged ==
    /\ db
    /\ user.some
    /\ user' = None
    /\ alert' = None
    /\ UNCHANGED <<address, mlsNumber, loading, error, results, saveStatus, pending, origin, db, store,
                   historyList, showHistory, loadingHistory, historyError, editingId,
                   editTitleValue, clock, saveOps, shareOps, deleteOps, renameOps, loadOps,
                   timers, serviceVars, promoVars>>

\* lines 124-154: Save (shown with results for a signed-in user, lines 686-693;
\* disabled unless saveStatus is 'idle'). With Firebase addDoc is awaited;
\* without it localStorage is written at once, which may throw
handleSaveSearch ==
    /\ user.some /\ results.some
    /\ ~loading
    /\ saveStatus = "idle"
    /\ CanWrite
    /\ clock' = clock + 1
    /\ IF db
       THEN /\ saveStatus' = "saving"
            /\ saveOps' = saveOps \cup {SearchData(user.val, clock', address, mlsNumber,
                                                   results.val)}
            /\ UNCHANGED <<store, timers>>
       ELSE /\ \/ /\ store' = Append(store,
                                     StoredDoc(SearchData(user.val, clock', address, mlsNumber,
                                                          results.val),
                                               "local-" \o ToString(clock')))
                  /\ saveStatus' = "saved"
                  /\ timers' = timers + 1
               \/ /\ saveStatus' = "error"
                  /\ UNCHANGED <<store, timers>>
            /\ UNCHANGED saveOps
    /\ alert' = None
    /\ UNCHANGED <<address, mlsNumber, loading, error, results, pending, origin, user, db, historyList,
                   showHistory, loadingHistory, historyError, editingId, editTitleValue,
                   shareOps, deleteOps, renameOps, loadOps, serviceVars, promoVars>>

\* lines 139, 148-149: addDoc resolves
SaveResolves ==
    /\ \E data \in saveOps :
         /\ store' = Append(store, StoredDoc(data, "doc-" \o ToString(data.timestamp)))
         /\ saveOps' = saveOps \ {data}
    /\ saveStatus' = "saved"
    /\ timers' = timers + 1
    /\ alert' = None
    /\ UNCHANGED <<address, mlsNumber, loading, error, results, pending, origin, user, db, historyList,
                   showHistory, loadingHistory, historyError, editingId, editTitleValue, clock,
                   shareOps, deleteOps, renameOps, loadOps, serviceVars, promoVars>>

\* lines 139, 150-153: addDoc rejects
SaveRejects ==
    /\ \E data \in saveOps : saveOps' = saveOps \ {data}
    /\ saveStatus' = "error"
    /\ alert' = None
    /\ UNCHANGED <<address, mlsNumber, loading, error, results, pending, origin, user, db, store,
                   historyList, showHistory, loadingHistory, historyError, editingId,
                   editTitleValue, clock, shareOps, deleteOps, renameOps, loadOps, timers,
                   serviceVars, promoVars>>

\* line 149: a timer set by a save fires
SaveTimerFires ==
    /\ timers > 0
    /\ timers' = timers - 1
    /\ saveStatus' = "idle"
    /\ alert' = None
    /\ UNCHANGED <<address, mlsNumber, loading, error, results, pending, origin, user, db, store,
                   historyList, showHistory, loadingHistory, historyError, editingId,
                   editTitleValue, clock, saveOps, shareOps, deleteOps, renameOps, loadOps,
                   serviceVars, promoVars>>

\* lines 156-230: My History. With Firebase the shared query (for a user with
\* an email) or the owned query is awaited; without it localStorage is read at
\* once, which may throw
loadHistory ==
    /\ user.some
    /\ Cardinality(loadOps) < MaxLoads
    /\ historyError' = None
    /\ showHistory' = TRUE
    /\ editingId' = None
    /\ IF db
       THEN /\ loadingHistory' = TRUE
            /\ loadOps' = loadOps \cup
                 {[uid |-> user.val.uid,
                   email |-> IF Truthy(user.val.email)
                             THEN toLowerCase(user.val.email.val) ELSE "",
                   phase |-> IF Truthy(user.val.email) THEN "shared" ELSE "owned",
                   shared |-> <<>>]}
            /\ UNCHANGED historyList
       ELSE /\ loadingHistory' = FALSE
            /\ \/ historyList' = SortDesc(OwnedDocs(store, user.val.uid))
               \/ UNCHANGED historyList
            /\ UNCHANGED loadOps
    /\ alert' = None
    /\ UNCHANGED <<address, mlsNumber, loading, error, results, saveStatus, pending, origin, user, db,
                   store, editTitleValue, clock, saveOps, shareOps, deleteOps, renameOps,
                   timers, serviceVars, promoVars>>

\* line 183: the shared query resolves
LoadSharedResolves ==
    /\ \E op \in loadOps :
         /\ op.phase = "shared"
         /\ loadOps' = (loadOps \ {op}) \cup
              {[op EXCEPT !.phase = "owned", !.shared = SharedDocs(store, op.email)]}
    /\ alert' = None
    /\ UNCHANGED <<address, mlsNumber, loading, error, results, saveStatus, pending, origin, user, db,
                   store, historyList, showHistory, loadingHistory, historyError, editingId,
                   editTitleValue, clock, saveOps, shareOps, deleteOps, renameOps, timers,
                   serviceVars, promoVars>>

\* lines 185-192: the shared query rejects
LoadSharedRejects ==
    /\ \E op \in loadOps :
         /\ op.phase = "shared"
         /\ loadOps' = (loadOps \ {op}) \cup {[op EXCEPT !.phase = "owned"]}
    /\ \E message \in {"Could not load shared searches. Database permissions may need updating.",
                       "Failed to load some shared searches."} :
         historyError' = Some(message)
    /\ alert' = None
    /\ UNCHANGED <<address, mlsNumber, loading, error, results, saveStatus, pending, origin, user, db,
                   store, historyList, showHistory, loadingHistory, editingId, editTitleValue,
                   clock, saveOps, shareOps, deleteOps, renameOps, timers, serviceVars,
                   promoVars>>

\* lines 195-228: the owned query resolves; merge, sort, show
LoadOwnedResolves ==
    /\ \E op \in loadOps :
         /\ op.phase = "owned"
         /\ historyList' = MergeHistory(OwnedDocs(store, op.uid), op.shared)
         /\ loadOps' = loadOps \ {op}
    /\ loadingHistory' = FALSE
    /\ alert' = None
    /\ UNCHANGED <<address, mlsNumber, loading, error, results, saveStatus, pending, origin, user, db,
                   store, showHistory, historyError, editingId, editTitleValue, clock, saveOps,
                   shareOps, deleteOps, renameOps, timers, serviceVars, promoVars>>

\* lines 195, 225-229: the owned query rejects
LoadOwnedRejects ==
    /\ \E op \in loadOps :
         /\ op.phase = "owned"
         /\ loadOps' = loadOps \ {op}
    /\ loadingHistory' = FALSE
    /\ alert' = None
    /\ UNCHANGED <<address, mlsNumber, loading, error, results, saveStatus, pending, origin, user, db,
                   store, historyList, showHistory, historyError, editingId, editTitleValue,
                   clock, saveOps, shareOps, deleteOps, renameOps, timers, serviceVars,
                   promoVars>>

\* lines 800, 804: the history view is closed
closeHistory ==
    /\ showHistory
    /\ showHistory' = FALSE
    /\ alert' = None
    /\ UNCHANGED <<address, mlsNumber, loading, error, results, saveStatus, pending, origin, user, db,
                   store, historyList, loadingHistory, historyError, editingId, editTitleValue,
                   clock, saveOps, shareOps, deleteOps, renameOps, loadOps, timers,
                   serviceVars, promoVars>>

\* lines 271-277: a row of the history view is clicked
restoreSearch ==
    /\ ListShown
    /\ \E i \in 1..Len(historyList) :
         /\ address' = [street |-> historyList[i].propertyDetails.street,
                        city |-> historyList[i].propertyDetails.city,
                        state |-> historyList[i].propertyDetails.state,
                        zip |-> historyList[i].propertyDetails.zip]
         /\ mlsNumber' = historyList[i].propertyDetails.mlsNumber
         /\ results' = Some(historyList[i].results)
         /\ origin' = Restored(historyList[i].propertyDetails)
    /\ showHistory' = FALSE
    /\ saveStatus' = "saved"
    /\ alert' = None
    /\ UNCHANGED <<loading, error, pending, user, db, store, historyList, loadingHistory,
                   historyError, editingId, editTitleValue, clock, saveOps, shareOps,
                   deleteOps, renameOps, loadOps, timers, serviceVars, promoVars>>

\* lines 304-308: the pencil of a row (lines 846-860: shown on every row that
\* is not being edited)
startEditing ==
    /\ ListShown
    /\ \E i \in 1..Len(historyList) :
         /\ editingId # Some(historyList[i].id)
         /\ editingId' = Some(historyList[i].id)
         /\ editTitleValue' = IF historyList[i].title # "" THEN historyList[i].title
                              ELSE historyList[i].propertyDetails.street
    /\ alert' = None
    /\ UNCHANGED <<address, mlsNumber, loading, error, results, saveStatus, pending, origin, user, db,
                   store, historyList, showHistory, loadingHistory, historyError, clock,
                   saveOps, shareOps, deleteOps, renameOps, loadOps, timers, serviceVars,
                   promoVars>>

\* line 831: typing in the title input of the row being edited
changeEditTitle ==
    /\ ListShown
    /\ editingId.some /\ HasId(historyList, editingId.val)
    /\ \E value \in TitlePool : editTitleValue' = value
    /\ alert' = None
    /\ UNCHANGED <<address, mlsNumber, loading, error, results, saveStatus, pending, origin, user, db,
                   store, historyList, showHistory, loadingHistory, historyError, editingId,
                   clock, saveOps, shareOps, deleteOps, renameOps, loadOps, timers,
                   serviceVars, promoVars>>

\* lines 310-314: the cancel button of the row being edited
cancelEditing ==
    /\ ListShown
    /\ editingId.some /\ HasId(historyList, editingId.val)
    /\ editingId' = None
    /\ editTitleValue' = ""
    /\ alert' = None
    /\ UNCHANGED <<address, mlsNumber, loading, error, results, saveStatus, pending, origin, user, db,
                   store, historyList, showHistory, loadingHistory, historyError, clock,
                   saveOps, shareOps, deleteOps, renameOps, loadOps, timers, serviceVars,
                   promoVars>>

\* lines 316-342: the save button of the row being edited. With Firestore
\* updateDoc is awaited; with localStorage the title is written at once, which
\* may throw
saveEdit ==
    /\ ListShown
    /\ editingId.some /\ HasId(historyList, editingId.val)
    /\ CanWrite
    /\ clock' = clock + 1
    /\ IF UsesFirestore(editingId.val)
       THEN /\ renameOps' = renameOps \cup {[id |-> editingId.val, title |-> editTitleValue]}
            /\ alert' = None
            /\ UNCHANGED <<store, historyList, editingId>>
       ELSE /\ \/ /\ store' = WithTitle(store, editingId.val, editTitleValue)
                  /\ historyList' = WithTitle(historyList, editingId.val, editTitleValue)
                  /\ editingId' = None
                  /\ alert' = None
               \/ /\ alert' = Some("Failed to update title.")
                  /\ UNCHANGED <<store, historyList, editingId>>
            /\ UNCHANGED renameOps
    /\ UNCHANGED <<address, mlsNumber, loading, error, results, saveStatus, pending, origin, user, db,
                   showHistory, loadingHistory, historyError, editTitleValue, saveOps,
                   shareOps, deleteOps, loadOps, timers, serviceVars, promoVars>>

\* lines 320, 334-337: updateDoc({title}) resolves (the document exists)
RenameResolves ==
    /\ \E op \in renameOps :
         /\ HasId(store, op.id)
         /\ store' = WithTitle(store, op.id, op.title)
         /\ historyList' = WithTitle(historyList, op.id, op.title)
         /\ renameOps' = renameOps \ {op}
    /\ editingId' = None
    /\ alert' = None
    /\ UNCHANGED <<address, mlsNumber, loading, error, results, saveStatus, pending, origin, user, db,
                   showHistory, loadingHistory, historyError, editTitleValue, clock, saveOps,
                   shareOps, deleteOps, loadOps, timers, serviceVars, promoVars>>

\* lines 320, 338-341: updateDoc({title}) rejects
RenameRejects ==
    /\ \E op \in renameOps : renameOps' = renameOps \ {op}
    /\ alert' = Some("Failed to update title.")
    /\ UNCHANGED <<address, mlsNumber, loading, error, results, saveStatus, pending, origin, user, db,
                   store, historyList, showHistory, loadingHistory, historyError, editingId,
                   editTitleValue, clock, saveOps, shareOps, deleteOps, loadOps, timers,
                   serviceVars, promoVars>>

\* lines 281-302: the delete button of a row (lines 885-887: shown on the
\* user's own rows), confirmed. With Firestore deleteDoc is awaited; with
\* localStorage the entry is removed at once, which may throw
handleDeleteSearch ==
    /\ ListShown
    /\ CanWrite
    /\ clock' = clock + 1
    /\ \E i \in 1..Len(historyList) :
         /\ historyList[i].userId = user.val.uid
         /\ IF UsesFirestore(historyList[i].id)
            THEN /\ deleteOps' = deleteOps \cup {historyList[i].id}
                 /\ alert' = None
                 /\ UNCHANGED <<store, historyList>>
            ELSE /\ \/ /\ store' = WithoutId(store, historyList[i].id)
                       /\ historyList' = WithoutId(historyList, historyList[i].id)
                       /\ alert' = None
                    \/ /\ alert' = Some("Failed to delete search.")
                       /\ UNCHANGED <<store, historyList>>
                 /\ UNCHANGED deleteOps
    /\ UNCHANGED <<address, mlsNumber, loading, error, results, saveStatus, pending, origin, user, db,
                   showHistory, loadingHistory, historyError, editingId, editTitleValue,
                   saveOps, shareOps, renameOps, loadOps, timers, serviceVars, promoVars>>

\* lines 287, 297: deleteDoc resolves
DeleteResolves ==
    /\ \E itemId \in deleteOps :
         /\ store' = WithoutId(store, itemId)
         /\ historyList' = WithoutId(historyList, itemId)
         /\ deleteOps' = deleteOps \ {itemId}
    /\ alert' = None
    /\ UNCHANGED <<address, mlsNumber, loading, error, results, saveStatus, pending, origin, user, db,
                   showHistory, loadingHistory, historyError, editingId, editTitleValue, clock,
                   saveOps, shareOps, renameOps, loadOps, timers, serviceVars, promoVars>>

\* Variant of DeleteRejects that takes the row out of the list although the
\* document was not deleted
DeleteRejects_Removes ==
    /\ \E itemId \in deleteOps :
         /\ deleteOps' = deleteOps \ {itemId}
         /\ historyList' = WithoutId(historyList, itemId)
    /\ alert' = Some("Failed to delete search.")
    /\ UNCHANGED <<address, mlsNumber, loading, error, results, saveStatus, pending, origin, user, db,
                   store, showHistory, loadingHistory, historyError, editingId,
                   editTitleValue, clock, saveOps, shareOps, renameOps, loadOps, timers,
                   serviceVars, promoVars>>

\* lines 287, 298-301: deleteDoc rejects
DeleteRejects ==
    /\ \E itemId \in deleteOps : deleteOps' = deleteOps \ {itemId}
    /\ alert' = Some("Failed to delete search.")
    /\ UNCHANGED <<address, mlsNumber, loading, error, results, saveStatus, pending, origin, user, db,
                   store, historyList, showHistory, loadingHistory, historyError, editingId,
                   editTitleValue, clock, saveOps, shareOps, renameOps, loadOps, timers,
                   serviceVars, promoVars>>

\* lines 232-269: the share button of a row (lines 869-871: shown on the
\* user's own rows); the email comes from prompt()
handleShareSearchAccess ==
    /\ ListShown
    /\ \E i \in 1..Len(historyList) :
         /\ historyList[i].userId = user.val.uid
         /\ IF ~UsesFirestore(historyList[i].id)
            THEN /\ alert' = Some("Sharing is only available when logged in and online.")
                 /\ UNCHANGED <<shareOps, clock>>
            ELSE \E email \in PromptPool :
                   /\ Truthy(email)
                   /\ IF ~ValidEmail(NormalizeEmail(email.val))
                      THEN /\ alert' = Some("Please enter a valid email address.")
                           /\ UNCHANGED <<shareOps, clock>>
                      ELSE IF ArrayIncludes(historyList[i].sharedWith, NormalizeEmail(email.val))
                      THEN /\ alert' = Some("User already has access.")
                           /\ UNCHANGED <<shareOps, clock>>
                      ELSE /\ CanWrite
                           /\ clock' = clock + 1
                           /\ shareOps' = shareOps \cup
                                {[id |-> historyList[i].id,
                                  email |-> NormalizeEmail(email.val),
                                  sharedWith |-> Append(historyList[i].sharedWith,
                                                        NormalizeEmail(email.val))]}
                           /\ alert' = None
    /\ UNCHANGED <<address, mlsNumber, loading, error, results, saveStatus, pending, origin, user, db,
                   store, historyList, showHistory, loadingHistory, historyError, editingId,
                   editTitleValue, saveOps, deleteOps, renameOps, loadOps, timers, serviceVars,
                   promoVars>>

\* lines 259-263: updateDoc({sharedWith}) resolves (the document exists)
ShareResolves ==
    /\ \E op \in shareOps :
         /\ HasId(store, op.id)
         /\ store' = WithSharedWith(store, op.id, op.sharedWith)
         /\ alert' = Some("Shared successfully with " \o op.email)
         /\ historyList' = WithSharedWith(historyList, op.id, op.sharedWith)
         /\ shareOps' = shareOps \ {op}
    /\ UNCHANGED <<address, mlsNumber, loading, error, results, saveStatus, pending, origin, user, db,
                   showHistory, loadingHistory, historyError, editingId, editTitleValue, clock,
                   saveOps, deleteOps, renameOps, loadOps, timers, serviceVars, promoVars>>

\* lines 259, 265-268: updateDoc({sharedWith}) rejects
ShareRejects ==
    /\ \E op \in shareOps : shareOps' = shareOps \ {op}
    /\ alert' = Some("Failed to share search.")
    /\ UNCHANGED <<address, mlsNumber, loading, error, results, saveStatus, pending, origin, user, db,
                   store, historyList, showHistory, loadingHistory, historyError, editingId,
                   editTitleValue, clock, saveOps, deleteOps, renameOps, loadOps, timers,
                   serviceVars, promoVars>>

\* a session in which a search has been made and its results are shown: the
\* user has yet to sign in, and Firestore, where configured, holds the saved
\* searches of earlier sessions
HistoryInit ==
    /\ FormResponses = ComputedResponses
    /\ env = [process |-> TRUE, API_KEY |-> Some("pk"), VITE_API_KEY |-> None,
              META_API_KEY |-> None]
    /\ ServiceIdle
    /\ address = FilledAddress
    /\ mlsNumber = "MLS123"
    /\ loading = FALSE
    /\ error = None
    /\ results \in {Some(r) : r \in ShownResponses}
    /\ saveStatus = "idle"
    /\ pending = None
    /\ origin = Searched(PropertyDetails(FilledAddress, "MLS123"))
    /\ aistudio = FALSE
    /\ PromoIdle
    /\ AppInitial
    /\ db \in BOOLEAN
    /\ store = IF db THEN StoredDocs ELSE <<>>
    /\ clock = Len(StoredDocs)

HistoryNext ==
    \/ handleLogin
    \/ handleLogout
    \/ onAuthStateChanged
    \/ handleSaveSearch
    \/ SaveResolves
    \/ SaveRejects
    \/ SaveTimerFires
    \/ loadHistory
    \/ LoadSharedResolves
    \/ LoadSharedRejects
    \/ LoadOwnedResolves
    \/ LoadOwnedRejects
    \/ closeHistory
    \/ startEditing
    \/ changeEditTitle
    \/ cancelEditing
    \/ saveEdit
    \/ RenameResolves
    \/ RenameRejects
    \/ handleDeleteSearch
    \/ DeleteResolves
    \/ DeleteRejects
    \/ handleShareSearchAccess
    \/ ShareResolves
    \/ ShareRejects

HistorySpec == HistoryInit /\ [][HistoryNext]_vars

\* a session of u1 at the time when Firestore holds the first saved search
\* only: the history view is where its calls are made
ShareInit ==
    /\ env = [process |-> TRUE, API_KEY |-> Some("pk"), VITE_API_KEY |-> None,
              META_API_KEY |-> None]
    /\ ServiceIdle
    /\ FormInitial
    /\ aistudio = FALSE
    /\ PromoIdle
    /\ AppInitial
    /\ db = TRUE
    /\ store = <<StoredDocs[1]>>
    /\ clock = 1

ShareNext ==
    \/ handleLogin
    \/ loadHistory
    \/ LoadSharedResolves
    \/ LoadSharedRejects
    \/ LoadOwnedResolves
    \/ LoadOwnedRejects
    \/ closeHistory
    \/ handleShareSearchAccess
    \/ ShareResolves
    \/ ShareRejects

ShareSpec == ShareInit /\ [][ShareNext]_vars

\* a guest session (no Firebase: saved searches live in localStorage, and
\* every call on them is synchronous) with the form filled and nothing
\* searched or saved yet
SaveInit ==
    /\ FormResponses = ComputedResponses
    /\ env = [process |-> TRUE, API_KEY |-> Some("pk"), VITE_API_KEY |-> None,
              META_API_KEY |-> None]
    /\ ServiceIdle
    /\ address = FilledAddress
    /\ mlsNumber = "MLS123"
    /\ loading = FALSE
    /\ error = None
    /\ results = None
    /\ saveStatus = "idle"
    /\ pending = None
    /\ origin = None
    /\ aistudio = FALSE
    /\ PromoIdle
    /\ AppInitial
    /\ db = FALSE
    /\ store = <<>>
    /\ clock = Len(StoredDocs)

SaveNext ==
    \/ handleLogin
    \/ handleMlsChange
    \/ handleSearch
    \/ SearchResolves
    \/ SearchRejects
    \/ handleReset
    \/ handleDeleteVideo
    \/ handleSaveSearch
    \/ SaveTimerFires
    \/ loadHistory
    \/ closeHistory
    \/ restoreSearch

SaveSpec == SaveInit /\ [][SaveNext]_vars

(***************************************************************************)
(* Properties.                                                             *)
(***************************************************************************)
Returned == pc = "returned"
Videos == result.val.videos
VideoUris == {Videos[k].uri : k \in 1..Len(Videos)}

\* the calls of processLink whose cleaned URI is u
CallsOf(u) == {i \in 1..Len(calls) : calls[i].uri = u}
\* the entries of the candidate set whose URI is u
EntriesOf(u) == {k \in 1..Len(allLinks) : allLinks[k].uri = u}
\* the URIs fed once by a grounding citation and once by the summary text
FedTwice ==
    {calls[i].uri : i \in {j \in 1..Len(calls) : calls[j].from = "citation"}}
      \cap {calls[i].uri : i \in {j \in 1..Len(calls) : calls[j].from = "text"}}

\* a required field is empty after trimming
Blank(value) == Trim(value) = ""
AnyBlank == Blank(address.street) \/ Blank(address.city) \/ Blank(address.state)
              \/ Blank(address.zip) \/ Blank(mlsNumber)

\* C1: when a required field (street, city, state, zip, MLS number) is empty
\* after trimming, handleSearch starts no call of searchPropertyVideos, leaves
\* loading false and the results as they are, and sets an error message that
\* names exactly the missing fields.
C1_ValidationBlocksSearch ==
    [][handleSearch /\ AnyBlank =>
         /\ pending' = None
         /\ ~loading'
         /\ results' = results
         /\ error'.some
         /\ StartsWith(error'.val, "Please fill in the following required field(s): ")
         /\ Includes(error'.val, "Street Address") <=> Blank(address.street)
         /\ Includes(error'.val, "City") <=> Blank(address.city)
         /\ Includes(error'.val, "State") <=> Blank(address.state)
         /\ Includes(error'.val, "Zip Code") <=> Blank(address.zip)
         /\ Includes(error'.val, "MLS Number") <=> Blank(mlsNumber)]_vars

\* a rejected submission: a field holds only white space, the message is up,
\* and the results of the search before it are still shown
C1_Witness ==
    /\ address.street = " "
    /\ error.some
    /\ Includes(error.val, "Street Address")
    /\ results.some
    /\ ~loading

\* C2 as claimed: every URI fed twice (by a citation and by the text) has
\* exactly one entry in the candidate set, with the title of the citation.
C2_AsClaimed ==
    \A u \in FedTwice :
        /\ Cardinality(EntriesOf(u)) = 1
        /\ \A k \in EntriesOf(u) : allLinks[k].title = calls[Min(CallsOf(u))].title

\* C2, amended: every URI fed twice has at most one entry in the candidate
\* set; it has one exactly when one of its calls passed the filters, and the
\* entry keeps the title of the first call that passed them.
C2_Deduplicated ==
    \A u \in FedTwice :
        /\ Cardinality(EntriesOf(u)) <= 1
        /\ EntriesOf(u) # {} <=> \E i \in CallsOf(u) : calls[i].passed
        /\ \A k \in EntriesOf(u) :
             allLinks[k].title = calls[Min({i \in CallsOf(u) : calls[i].passed})].title

\* a URI fed by a citation and by the text, stored once under the citation's title
C2_Witness ==
    /\ pc = "awaitProbes"
    /\ \E u \in FedTwice : \E k \in EntriesOf(u) :
         /\ calls[Min(CallsOf(u))].from = "citation"
         /\ calls[Min(CallsOf(u))].passed
         /\ allLinks[k].title = "Home Tour"

\* C3: no entry of the final videos has a URI without an http:// or https://
\* scheme prefix.
C3_HttpSchemeOnly ==
    Returned =>
        \A k \in 1..Len(Videos) :
            StartsWith(Videos[k].uri, "http://") \/ StartsWith(Videos[k].uri, "https://")

\* C4: a channel-root page of YouTube (a youtube.com / youtu.be URI with
\* /channel/, /user/ or /c/) never appears in the final videos.
C4_NoChannelPage ==
    Returned =>
        \A k \in 1..Len(Videos) :
            ~ /\ \/ Includes(Videos[k].source, "youtube.com")
                 \/ Includes(Videos[k].source, "youtu.be")
              /\ \/ Includes(Videos[k].uri, "/channel/")
                 \/ Includes(Videos[k].uri, "/user/")
                 \/ Includes(Videos[k].uri, "/c/")

\* a response that cited a channel page and still produced videos
C4_Witness ==
    /\ Returned
    /\ \E i \in 1..Len(calls) :
         calls[i].uri = "https://youtube.com/channel/UC123" /\ calls[i].from = "citation"
    /\ Len(Videos) > 0

\* C5: the final videos hold at most one entry that is not on a video
\* platform (the listing), and it is the first entry.
C5_OneListingFirst ==
    Returned => \A k \in 1..Len(Videos) : IsListing(Videos[k]) => k = 1

\* two listing candidates were accepted, one listing leads the final videos
C5_Witness ==
    /\ Returned
    /\ Cardinality({k \in 1..Len(allLinks) : IsListing(allLinks[k])}) = 2
    /\ Len(Videos) > 1
    /\ IsListing(Videos[1])

\* C6: a probed entry whose probe answered 404, or whose probe threw (network
\* error or timeout abort), is absent from the final videos.
C6_DropsUnavailable ==
    Returned =>
        \A i \in 1..Len(finalLinks) :
            (probes[i].status = 404 \/ probes[i].how \in {"threw", "timeout"})
              => finalLinks[i].uri \notin VideoUris

\* one probe answered 404, another probe threw, and a third entry was kept
C6_Witness ==
    /\ Returned
    /\ \E i \in 1..Len(finalLinks) : probes[i].status = 404
    /\ \E i \in 1..Len(finalLinks) : probes[i].how \in {"threw", "timeout"}
    /\ Len(Videos) > 0

\* C7 as claimed: a probed entry whose probe answered with a success status
\* is present in the final videos.
C7_AsClaimed ==
    Returned =>
        \A i \in 1..Len(finalLinks) :
            (probes[i].status >= 200 /\ probes[i].status <= 299)
              => finalLinks[i].uri \in VideoUris

\* C7, amended: in every SearchResponse returned, a probed entry whose probe
\* answered with a success status is present unless the JSON body of the
\* answer carries the title "video unavailable" (a body that does not parse
\* keeps the entry).
C7_KeepsAvailable ==
    Returned =>
        \A i \in 1..Len(finalLinks) :
            /\ probes[i].status >= 200 /\ probes[i].status <= 299
            /\ probes[i].how # "unavailable"
            => finalLinks[i] \in {Videos[k] : k \in 1..Len(Videos)}

\* a probe answered 200 with a body that does not parse, and the entry was kept
C7_Witness ==
    /\ Returned
    /\ \E i \in 1..Len(finalLinks) :
         /\ probes[i].status = 200
         /\ probes[i].how = "malformed"
         /\ finalLinks[i].uri \in VideoUris

\* the index of the first call that passed the filters with URI u
FirstSeen(u) == Min({i \in CallsOf(u) : calls[i].passed})

\* C8: the final videos are the listing link (if any) first, titled
\* "Official Listing Page", then the surviving video links in first-seen
\* order (citations before text links), whatever the order in which the
\* probes complete; one Zillow homedetails citation plus one YouTube watch
\* link in the text yield exactly [Zillow listing, YouTube link].
C8_ListingThenFirstSeen ==
    Returned =>
        /\ \E listings \in {{k \in 1..Len(Videos) : IsListing(Videos[k])}} :
             /\ \A k \in listings :
                  /\ k = 1
                  /\ Videos[k].title = "Official Listing Page"
                  /\ \A i \in 1..Len(calls) :
                       (calls[i].passed /\ IsListing(calls[i]))
                         => FirstSeen(Videos[k].uri) <= i
             /\ \A j, k \in (1..Len(Videos)) \ listings :
                  j < k => FirstSeen(Videos[j].uri) < FirstSeen(Videos[k].uri)
        /\ \A i \in 1..Len(finalLinks) : probes[i].verdict => finalLinks[i].uri \in VideoUris
        /\ (/\ response.val.chunks = <<[uri |-> Some("https://zillow.com/homedetails/abc"),
                                         title |-> Some("Listing")]>>
            /\ response.val.text = Some("Watch https://youtube.com/watch?v=xyz.")
            /\ \A i \in 1..Len(finalLinks) : probes[i].verdict)
           => /\ Videos = <<[title |-> "Official Listing Page",
                             uri |-> "https://zillow.com/homedetails/abc",
                             source |-> "zillow.com"],
                            [title |-> "Mentioned Link",
                             uri |-> "https://youtube.com/watch?v=xyz",
                             source |-> "youtube.com"]>>
              /\ result.val.found

\* a listing cited second leads the list; two videos follow in first-seen order
C8_Witness ==
    /\ Returned
    /\ Len(Videos) = 3
    /\ Videos[1].title = "Official Listing Page"
    /\ calls[1].uri = Videos[2].uri
    /\ calls[Len(calls)].uri = Videos[3].uri

\* C9: every SearchResponse returned has found = true exactly when its videos
\* are non-empty, after the availability filter.
C9_FoundIffVideos ==
    Returned => (result.val.found <=> Len(Videos) > 0)

\* links were categorized, every one of them was dropped by its probe
C9_Witness ==
    /\ Returned
    /\ Len(finalLinks) > 0
    /\ Len(Videos) = 0
    /\ ~result.val.found

\* no credential is configured in any of the three places
NoCredential ==
    /\ ~(env.process /\ env.API_KEY.some /\ env.API_KEY.val # "")
    /\ ~(env.VITE_API_KEY.some /\ env.VITE_API_KEY.val # "")
    /\ ~(env.META_API_KEY.some /\ env.META_API_KEY.val # "")

\* C10: without a configured credential searchPropertyVideos fails before any
\* network call: no generative-search request and no probe is ever sent.
C10_FailsFastWithoutKey ==
    NoCredential =>
        /\ generateCalls = 0
        /\ fetches = {}
        /\ pc \in {"idle", "threw"}
        /\ pc = "threw" => thrown = Some(MissingKeyMessage)

\* the call was made with only empty keys configured, and it threw
C10_Witness ==
    /\ NoCredential
    /\ env.process /\ env.API_KEY = Some("")
    /\ pc = "threw"

\* C11: when the generative-search call fails, searchPropertyVideos rejects
\* with the one generic message that suggests trying again and resolves with
\* no SearchResponse; in every invocation the search request is sent at most
\* once, and exactly once when the call failed.
C11_GenericFailureNoRetry ==
    /\ generateCalls <= 1
    /\ (pc = "threw" /\ ~NoCredential) =>
         /\ thrown = Some(SearchFailedMessage)
         /\ Includes(thrown.val, "try again")
         /\ result = None
         /\ generateCalls = 1

\* the search request was sent once, it failed, and the call rejected
C11_Witness ==
    /\ pc = "threw"
    /\ generateCalls = 1
    /\ thrown = Some(SearchFailedMessage)
    /\ result = None

PromoTerminated == promoPc \in {"returned", "threw"}

\* C12: generatePromotionalVideo fails in both failure cases, and the error
\* that reaches the caller names the cause: without a credential it is the
\* missing-key error, and after a completion without a result URI it is the
\* missing-URI error.
C12_DescriptiveErrors ==
    promoPc = "threw" =>
        /\ (videoCalls = 0 /\ ~Truthy(getApiKey(env)) /\ promoThrown # Some(AistudioErrorMessage))
             => promoThrown = Some(NoKeyMessage)
        /\ caught = Some(NoUriMessage) => promoThrown = Some(NoUriMessage)

\* C13: generatePromotionalVideo resolves with a URL only after a status with
\* done = true was observed; while done is false the loop sleeps and then
\* polls again, and the call ends in no other way than by a status with done
\* set or by a failed call; once done is observed or a call has failed, the
\* call terminates.
C13_PollsUntilDone ==
    /\ [](promoPc = "returned" =>
            /\ operation.val.done
            /\ promoResult = Some(PromoUrl(operation.val.uri.val, promoKey.val)))
    /\ []((PromoTerminated /\ videoCalls > 0) =>
            \/ operation.some /\ operation.val.done
            \/ caught = Some(ApiErrorMessage))
    /\ [][(promoPc = "loopTest" /\ ~operation.val.done) => promoPc' = "sleeping"]_vars
    /\ [][promoPc = "sleeping" => promoPc' = "awaitOperation"]_vars
    /\ (promoPc = "loopTest" /\ operation.val.done) ~> PromoTerminated
    /\ (promoPc = "caught") ~> PromoTerminated

\* the operation was polled MaxPolls times or more before it reported done,
\* and the call then resolved with the URL
C13_Witness ==
    /\ promoPc = "returned"
    /\ polls = MaxPolls
    /\ operation.val.done
    /\ promoResult.some

\* the indexes an entry of finalLinks can have under the bounds (a sentence of
\* the pool holds at most two URLs)
LinkIndexes == 1..(MaxChunks + 2 * MaxSentences)

\* the entry's source is YouTube, as line 215 tests it
OnYouTube(link) == Includes(link.source, "youtube.com") \/ Includes(link.source, "youtu.be")

\* C14: one probe per entry is started before any is awaited, and the
\* SearchResponse is produced only when every check has returned its
\* verdict; an entry is retained exactly when its own verdict is true,
\* whatever the order in which the probes completed.
C14_AllCompleteBarrier ==
    /\ pc = "awaitProbes" =>
         fetches = {finalLinks[i].uri : i \in {j \in 1..Len(finalLinks) : OnYouTube(finalLinks[j])}}
    /\ Returned =>
         /\ \A i \in 1..Len(finalLinks) : probes[i].phase = "settled"
         /\ \A i \in 1..Len(finalLinks) : probes[i].verdict <=> finalLinks[i].uri \in VideoUris
         /\ Len(Videos) = Cardinality({i \in 1..Len(finalLinks) : probes[i].verdict})

\* two probes were sent, one entry was dropped and the other kept
C14_Witness ==
    /\ Returned
    /\ Cardinality(fetches) >= 2
    /\ \E i, j \in 1..Len(finalLinks) :
         /\ probes[i].how \notin {"skipped", "pending"} /\ ~probes[i].verdict
         /\ probes[j].how \notin {"skipped", "pending"} /\ probes[j].verdict

\* C15: every probe that was started eventually yields a verdict, even if
\* the endpoint never finishes responding, be it with the headers or with
\* the body.
C15_ProbeBounded ==
    \A i \in LinkIndexes :
        (pc = "awaitProbes" /\ i <= Len(probes) /\ probes[i].phase # "settled")
          ~> (i <= Len(probes) /\ probes[i].phase = "settled")

\* C16: a probe that never resolves holds back only its own entry: an entry
\* whose own check has returned true is eventually delivered in a
\* SearchResponse.
C16_OthersDelivered ==
    \A i \in LinkIndexes :
        (pc = "awaitProbes" /\ i <= Len(probes) /\ probes[i].phase = "settled"
           /\ probes[i].verdict)
          ~> (Returned /\ i <= Len(finalLinks) /\ finalLinks[i].uri \in VideoUris)

\* the probe of entry i got an answer that, as claimed, marks it unavailable
FailedStatus(i) ==
    \/ probes[i].status \in {401, 403, 404}
    \/ probes[i].how = "status" /\ ~ResOk(probes[i].status)
FailedProbe(i) == FailedStatus(i) \/ probes[i].how \in {"threw", "timeout"}

\* C17 as claimed: a probed entry is dropped when its probe answered 401, 403,
\* 404 or another non-success status, when the body of the answer does not
\* parse, and when the probe threw.
C17_AsClaimed ==
    Returned =>
        \A i \in 1..Len(finalLinks) :
            (FailedProbe(i) \/ probes[i].how = "malformed")
              => finalLinks[i].uri \notin VideoUris

\* C17, amended: a probed entry is dropped when its probe answered 401, 403,
\* 404 or another non-success status, and when the probe threw; when the body
\* of a success answer does not parse, the entry is kept.
C17_DropsFailedProbes ==
    Returned =>
        \A i \in 1..Len(finalLinks) :
            /\ FailedProbe(i) => finalLinks[i].uri \notin VideoUris
            /\ probes[i].how = "malformed" => finalLinks[i].uri \in VideoUris

\* one probe answered 500 or 401 and its entry is gone, another probe threw
\* and its entry is gone too
C17_Witness ==
    /\ Returned
    /\ \E i, j \in 1..Len(finalLinks) :
         /\ probes[i].how = "status" /\ probes[i].status \in {401, 500}
         /\ probes[j].how = "threw"
         /\ finalLinks[i].uri \notin VideoUris
         /\ finalLinks[j].uri \notin VideoUris

\* C18: an entry whose source is not YouTube is never probed (no request is
\* sent for it) and is always retained, whatever the probes of the other
\* entries answer.
C18_OthersNotProbed ==
    \A i \in 1..Len(finalLinks) :
        ~OnYouTube(finalLinks[i]) =>
            /\ finalLinks[i].uri \notin fetches
            /\ probes[i] = NotProbed
            /\ Returned => finalLinks[i] \in {Videos[k] : k \in 1..Len(Videos)}

\* a Vimeo link was retained without a probe while a YouTube entry was dropped
C18_Witness ==
    /\ Returned
    /\ \E i, j \in 1..Len(finalLinks) :
         /\ finalLinks[i].source = "vimeo.com"
         /\ finalLinks[i].uri \in VideoUris
         /\ finalLinks[i].uri \notin fetches
         /\ OnYouTube(finalLinks[j])
         /\ finalLinks[j].uri \notin VideoUris

\* call i of processLink got a URL that new URL rejects
Unparseable(i) == HasHttpPrefix(calls[i].uri) /\ ~ParseURL(calls[i].uri).ok

\* C19: a URL that does not parse adds no entry and does not fail the search,
\* and every other call that passed the filters, before it or after it, has
\* its entry all the same.
C19_UnparseableSkipped ==
    \A i \in 1..Len(calls) :
        Unparseable(i) =>
            /\ EntriesOf(calls[i].uri) = {}
            /\ pc \in {"awaitProbes", "returned"}
            /\ thrown = None
            /\ \A j \in 1..Len(calls) :
                 calls[j].passed => Cardinality(EntriesOf(calls[j].uri)) = 1

\* an unparseable citation between a citation and a text link that both
\* became candidates; the search returned
C19_Witness ==
    /\ Returned
    /\ Len(calls) = 3
    /\ calls[1].passed
    /\ Unparseable(2)
    /\ calls[3].passed
    /\ Len(allLinks) = 2

(***************************************************************************)
(* Failed persistence calls.                                               *)
(***************************************************************************)
\* the save did not reach the store: addDoc rejected, or localStorage threw
SaveFails == SaveRejects \/ (handleSaveSearch /\ ~db /\ store' = store)

\* updateDoc({sharedWith}) rejected (sharing has no localStorage branch)
ShareFails == ShareRejects

\* the delete did not reach the store: deleteDoc rejected, or localStorage threw
DeleteFails == DeleteRejects \/ (handleDeleteSearch /\ ~db /\ store' = store)

\* the rename did not reach the store: updateDoc({title}) rejected, or
\* localStorage threw (the catch skips setEditingId(null))
RenameFails == RenameRejects \/ (saveEdit /\ ~db /\ editingId' = editingId)

\* historyList, the displayed results and the form fields are as before
KeepsListResultsForm ==
    /\ historyList' = historyList
    /\ results' = results
    /\ address' = address
    /\ mlsNumber' = mlsNumber

\* C20 as stated: a save, share, delete or rename that fails raises an alert
\* and leaves historyList, the displayed results and the form fields as they
\* were
C20_AsClaimed ==
    [][(SaveFails \/ ShareFails \/ DeleteFails \/ RenameFails)
         => (alert'.some /\ KeepsListResultsForm)]_vars

\* C20, amended: a share, delete or rename that fails raises its alert, a save
\* that fails raises none and sets saveStatus to 'error'; all four leave
\* historyList, the displayed results and the form fields as they were
C20_FailureKeepsState ==
    [][/\ (SaveFails \/ ShareFails \/ DeleteFails \/ RenameFails) => KeepsListResultsForm
       /\ ShareFails => alert' = Some("Failed to share search.")
       /\ DeleteFails => alert' = Some("Failed to delete search.")
       /\ RenameFails => alert' = Some("Failed to update title.")
       /\ SaveFails => (alert' = None /\ saveStatus' = "error")]_vars

\* a delete has failed while the history view shows the user's saved searches
C20_Witness ==
    /\ alert = Some("Failed to delete search.")
    /\ ListShown
    /\ \E i \in 1..Len(historyList) : historyList[i].userId = user.val.uid
    /\ results.some

(***************************************************************************)
(* Concurrent shares.                                                      *)
(***************************************************************************)
\* the emails of list are all in other
AllIncluded(list, other) == \A k \in 1..Len(list) : ArrayIncludes(other, list[k])

\* list holds no email twice
NoneTwice(list) == \A k \in 1..Len(list) : \A l \in 1..Len(list) : list[k] = list[l] => k = l

\* C28: sharing never revokes access: no step takes an email out of the
\* sharedWith list of a stored search (so every email reported as shared
\* stays in it), and no stored list holds an email twice
C28_SharingNeverRevokes ==
    /\ [][\A i \in 1..Len(store) : \A j \in 1..Len(store') :
            store'[j].id = store[i].id
              => AllIncluded(store[i].sharedWith, store'[j].sharedWith)]_vars
    /\ [](\A i \in 1..Len(store) : NoneTwice(store[i].sharedWith))

(***************************************************************************)
(* The saved searches.                                                     *)
(***************************************************************************)
\* C21: after a failed save the user can trigger the save again for the same
\* results: with saveStatus 'error', a signed-in user and results on display
\* (and the session allowed another call), handleSaveSearch can be taken.
C21_RetryAfterFailedSave ==
    (saveStatus = "error" /\ user.some /\ results.some /\ ~loading /\ CanWrite)
      => ENABLED handleSaveSearch

\* the row with this id is listed and belongs to the signed-in user
OwnRow(itemId) ==
    /\ user.some
    /\ \E i \in 1..Len(historyList) :
         historyList[i].id = itemId /\ historyList[i].userId = user.val.uid

\* C22: startEditing, saveEdit, handleDeleteSearch and handleShareSearchAccess
\* are only ever triggered on a row whose userId is the signed-in user's uid.
C22_OwnerOnlyActions ==
    [][/\ startEditing => OwnRow(editingId'.val)
       /\ saveEdit => OwnRow(editingId.val)
       /\ handleDeleteSearch =>
            /\ \A itemId \in deleteOps' \ deleteOps : OwnRow(itemId)
            /\ \A i \in 1..Len(historyList) :
                 ~HasId(historyList', historyList[i].id) => OwnRow(historyList[i].id)
       /\ handleShareSearchAccess =>
            \A op \in shareOps' \ shareOps : OwnRow(op.id)]_vars

\* the fields of a stored search that nothing rewrites
SameIdentity(a, b) ==
    /\ a.userId = b.userId
    /\ a.timestamp = b.timestamp
    /\ a.propertyDetails = b.propertyDetails
    /\ a.results = b.results

\* the step writes a title: updateDoc({title}) resolved, or saveEdit wrote
\* localStorage
RenameWrites == RenameResolves \/ saveEdit

\* the ids the title write of this step is for
RenameTargets ==
    {op.id : op \in renameOps \ renameOps'}
      \cup (IF saveEdit /\ editingId.some THEN {editingId.val} ELSE {})

\* C23: a stored search keeps its userId, timestamp, propertyDetails and
\* results for as long as it is stored; a rename changes nothing but the title
\* of the record with the given id, a share nothing but the sharedWith of the
\* given record, and no other step changes a stored record.
C23_OnlyTitleOrSharing ==
    [][\A i \in 1..Len(store) : \A j \in 1..Len(store') :
         store'[j].id = store[i].id =>
           /\ SameIdentity(store[i], store'[j])
           /\ store'[j].title # store[i].title =>
                (RenameWrites /\ store[i].id \in RenameTargets)
           /\ store'[j].sharedWith # store[i].sharedWith =>
                (ShareResolves /\ store[i].id \in {op.id : op \in shareOps \ shareOps'})]_vars

\* a stored search of an earlier session has been renamed
C23_Witness ==
    \E i \in 1..Len(store) : \E j \in 1..Len(StoredDocs) :
      /\ store[i].id = StoredDocs[j].id
      /\ store[i].title # StoredDocs[j].title
      /\ store[i].sharedWith = StoredDocs[j].sharedWith

\* C27: historyList is non-empty only while a user is signed in.
C27_ListOnlyWhileSignedIn == historyList # <<>> => user.some

(***************************************************************************)
(* The displayed results.                                                  *)
(***************************************************************************)
\* the step on which a search call resolves and its response is set (line 116)
ResultsArrive == pending.some /\ ~pending'.some /\ results' # results

C24_DetailsAsIssued ==
    [][handleSaveSearch =>
         /\ \A j \in 1..Len(store') :
              ~HasId(store, store'[j].id) => store'[j].propertyDetails = origin.val.details
         /\ \A data \in saveOps' \ saveOps : data.propertyDetails = origin.val.details]_vars

\* C25: whenever saveStatus is 'saved', the displayed results are the results
\* of a stored SavedSearch.
C25_SavedMeansStored ==
    saveStatus = "saved" =>
      /\ results.some
      /\ \E i \in 1..Len(store) : store[i].results = results.val

\* C26: while the results on display are those restoreSearch loaded (no search
\* or reset since), saveStatus is 'saved': no timer of an earlier save sets it
\* back to 'idle'.
C26_RestoredStaysSaved ==
    (results.some /\ origin.some /\ origin.val.how = "restore") => saveStatus = "saved"

\* C30 (safety): loading is true only while a search call is in flight; while
\* it is in flight no results are set, so that those of restoreSearch neither
\* are overwritten by the response nor overwrite it; and the step on which the
\* call settles leaves loading false and exactly one of results and error set.
C30_SearchCompletesAlone ==
    [][/\ loading' => pending'.some
       /\ pending'.some => results' = None
       /\ (pending.some /\ ~pending'.some) =>
            (~loading' /\ (results'.some <=> ~error'.some))]_vars

====
